---- MODULE Spec2Model ----
(***************************************************************************)
(* Model of MastodonService (src/services/mastodon.ts): the request layer  *)
(* fetchApi, the permission-fallback page fetch getStatusesPage and the    *)
(* incremental crawler getStatusesUntil, in both variants found in the     *)
(* source (variant 1: lines 3-184, variant 2: lines 188-357).              *)
(*                                                                         *)
(* One getStatusesUntil session is a sequential flow; an action is the     *)
(* code executed between two suspension points (await fetch, await sleep). *)
(* The clock `now` only advances while the flow is suspended.              *)
(*                                                                         *)
(* Post ids are positive integers; 0 stands for a falsy cursor (undefined).*)
(* created_at is modelled by the timestamp `new Date(created_at)` yields.  *)
(***************************************************************************)
EXTENDS Integers, Sequences, FiniteSets, TLC

\* ---------------------------------------------------------------- constants
PageLimit == 40
TIME_BUDGET == 10000
Cap1 == 5000
Cap2 == 10000
MaxRetries == 2
BaseBackoffMs == 1000
JitterMin == 200
JitterSpan == 300

\* ------------------------------------------------------------------- bounds
MaxPages == 3
MaxFaults == 1
HttpPages == 2
HttpFaults == 4
CapPages == 260
RetryPages == 1
RetryFaults == 3
ApiAnswers == 1
ApiFaults == 3
PairPages == 4
PairFaults == 1
SmallPages == 4
SmallFaults == 2
ShortLen == 3
BigPage == 2600
NewestId == 120
DeepNewestId == 10080
SlowMs == 10001
ClockMax == 10001
RetryAfterSecs == 6
ResumePages == 5
TwinPages == 2
TwinFaults == 2
QuotaPages == 2
QuotaFaults == 5
LivePages == 260
LiveFaults == 2

NoId == 0
NoRetryAfter == -1
NotSeconds == -2
NaN == -1
Dates == {1, 2}
UntilDates == {2}
StartIds == {NoId, 81}
OldBelows == {0, 60, 5000}
RetryAfters == {NoRetryAfter, RetryAfterSecs}
AllRetryAfters == {NoRetryAfter, NotSeconds, 0, RetryAfterSecs}
ErrorStatuses == {401, 403, 500}

VARIABLES
  variant,              \* which MastodonService class of the source is built
  token,                \* this.token is configured
  server,               \* behaviour of the remote service (environment)
  oldBelow,             \* account servers: posts with id < oldBelow are old
  pagesLeft,            \* environment budget: page bodies still served
  faultsLeft,           \* environment budget: non-2xx / failed answers left
  now,                  \* Date.now()
  pc,                   \* position of the flow
  untilDate,            \* getStatusesUntil argument
  allFilteredStatuses, maxId, reachedThreshold, hasMore, totalFetched,
  wasFellBack, startTime,
  params,               \* getStatusesPage: the request parameters
  useAuth, retryCount,  \* fetchApi arguments of the running call
  waitTime,             \* fetchApi: delay before the retry
  result,               \* <<r>> once getStatusesUntil has returned r
  error,                \* <<e>> once getStatusesUntil has thrown e
  fetched,              \* history: the pages returned by getStatusesPage
  pageReqs,             \* history: HTTP requests of the current page call
  pageResps,            \* history: answers to those requests
  pageFellBack,         \* history: fellBack of each returned page
  pageWaits,            \* history: the 429 answers retried in this page call
  progress,             \* history: arguments of the onProgress calls
  op,                   \* the public method the running call entered through
  startId,              \* getStatusesUntil argument
  parked,               \* a second call of the same service object, suspended
  mounted,              \* App.tsx: the App component has rendered
  appAuth,              \* App.tsx state: auth is not null
  account,              \* App.tsx state: account is not null
  statuses,             \* App.tsx state: the stored post list, as page ids
  lastId,               \* App.tsx state: the stored cursor
  isLoading,            \* App.tsx state
  inFlight,             \* App.tsx: the handler invocations awaiting the service
  clicksLeft            \* environment budget: user triggers still made

vars == <<variant, token, server, oldBelow, pagesLeft, faultsLeft, now, pc,
          untilDate, allFilteredStatuses, maxId, reachedThreshold, hasMore,
          totalFetched, wasFellBack, startTime, params, useAuth, retryCount,
          waitTime, result, error, fetched, pageReqs, pageResps,
          pageFellBack, pageWaits, progress, op, startId, parked,
          mounted, appAuth, account, statuses, lastId, isLoading, inFlight,
          clicksLeft>>

\* ------------------------------------------------------------ pure helpers
Min(a, b) == IF a < b THEN a ELSE b

RECURSIVE Pow2(_)
Pow2(n) == IF n = 0 THEN 1 ELSE 2 * Pow2(n - 1)

\* variation: the filter keeps every post
OriginalPostsKeepAll(batch) == batch

\* batch.filter((s) => !s.reblog)
OriginalPosts(batch) == SelectSeq(batch, LAMBDA s : ~s.reblog)

\* variation: only the posts that are kept are counted
AddFetchedOriginals(total, batch) ==
  total + Cardinality({i \in 1..Len(batch) : ~batch[i].reblog})

\* totalFetched += batch.length
AddFetched(total, batch) == total + Len(batch)

\* variation: the callback is skipped when the page added nothing
OnProgressIfGrown(calls, acc) ==
  IF calls # <<>> /\ calls[Len(calls)] = Len(acc) THEN calls
  ELSE Append(calls, Len(acc))

\* if (onProgress) onProgress(allFilteredStatuses.length), with a callback
\* supplied: the calls made so far, in order
OnProgress(calls, acc) == Append(calls, Len(acc))

\* allFilteredStatuses.push(...originalPosts)
PushAll(acc, posts) == acc \o posts

\* variation: the cursor is taken from the first post of the page
CursorOfFirst(batch) == batch[1].id

\* variation: the cursor is the id just above the last post of the page
CursorOfPlusOne(batch) == batch[Len(batch)].id + 1

\* maxId = batch[batch.length - 1].id
CursorOf(batch) == batch[Len(batch)].id

\* variation: the comparison is reversed
OldestAfter(batch, until) == batch[Len(batch)].created_at > until

\* variation: the comparison is not strict
OldestBeforeOrAt(batch, until) == batch[Len(batch)].created_at <= until

\* oldestInBatch < untilDate
OldestBefore(batch, until) == batch[Len(batch)].created_at < until

\* variation: only an empty page counts as the end of the data
UndersizedOnlyEmpty(batch) == Len(batch) < 1

\* batch.length < 40
Undersized(batch) == Len(batch) < PageLimit

\* totalFetched > 5000  /  totalFetched > 10000
HardCap(v) == IF v = 1 THEN Cap1 ELSE Cap2
\* variation: the cap test fires at twice the cap
CapExceededAtDouble(v, total) == total > 2 * HardCap(v)
\* variation: the cap test never fires
CapExceededNever(v, total) == total < 0
CapExceeded(v, total) == total > HardCap(v)

\* variation: the budget test is left out
OverBudgetIgnored(v, t, start) == FALSE

\* variation: the operands of the subtraction are swapped
OverBudgetSwapped(v, t, start) == v = 1 /\ start - t > TIME_BUDGET

\* Date.now() - startTime > TIME_BUDGET (variant 1 only)
OverBudget(v, t, start) == v = 1 /\ t - start > TIME_BUDGET

\* variation: every failed answer within the budget is retried
ShouldRetryAnyError(v, status, rc) == v = 1 /\ status # 200 /\ rc < MaxRetries

\* variation: off by one in the retry budget
ShouldRetryOnceMore(v, status, rc) == v = 1 /\ status = 429 /\ rc <= MaxRetries

\* response.status === 429 && retryCount < 2 (variant 1 only)
ShouldRetry(v, status, rc) == v = 1 /\ status = 429 /\ rc < MaxRetries

\* parseInt(retryAfter): the header text is a decimal number of seconds, or
\* any other text (an HTTP date), for which parseInt yields NaN
ParseInt(header) == IF header = NotSeconds THEN NaN ELSE header

\* x * 1000 in floating point arithmetic
TimesThousand(x) == IF x = NaN THEN NaN ELSE x * 1000

\* variation: the backoff does not double
WaitTimeOfFlat(retryAfter, rc) ==
  IF retryAfter # NoRetryAfter THEN TimesThousand(ParseInt(retryAfter))
  ELSE BaseBackoffMs

\* retryAfter ? parseInt(retryAfter) * 1000 : Math.pow(2, retryCount) * 1000
\* (the header text is truthy whenever the header is present, also for "0")
WaitTimeOf(retryAfter, rc) ==
  IF retryAfter # NoRetryAfter THEN TimesThousand(ParseInt(retryAfter))
  ELSE Pow2(rc) * BaseBackoffMs

\* variation: the delay is started but not awaited
SleptNotAwaited(ms) == 0

\* await this.sleep(ms): the time that passes before the flow continues;
\* setTimeout treats a NaN delay as 0
Slept(ms) == IF ms = NaN THEN 0 ELSE ms

\* variation: any failure of the authenticated call triggers the fallback
ShouldFallBackAnyFailure(auth, status) == auth

\* variations: only one of the two statuses triggers the fallback
ShouldFallBackOn403(auth, status) == auth /\ status = 403
ShouldFallBackOn401(auth, status) == auth /\ status = 401

\* error.status === 403 || error.status === 401, in the catch of the try block
\* (the try block holds the call with the default useAuth = true)
ShouldFallBack(auth, status) == auth /\ (status = 403 \/ status = 401)

\* variation: the thrown error does not carry the response status
HttpErrorNoStatus(status) == [kind |-> "http", status |-> 0]

\* variations: the flag follows the latest page / is never raised
NoteFellBackLatest(was, fell) == fell
NoteFellBackNever(was, fell) == was

\* if (fellBack) wasFellBack = true
NoteFellBack(was, fell) == was \/ fell

\* the error fetchApi throws for a non-ok response
HttpError(status) == [kind |-> "http", status |-> status]
\* the rejection of fetch itself: no status field
NetworkError == [kind |-> "network", status |-> 0]

\* variation: the token is not looked at before the request
TokenMissingIgnored(tok) == FALSE

\* !this.token
TokenMissing(tok) == ~tok

\* new Error("Token required for verifyCredentials"): no status field
PreconditionError == [kind |-> "precondition", status |-> 0]

\* the default params = {} of fetchApi, and { acct: username }
EmptyParams == [acct |-> ""]
LookupParams(username) == [acct |-> username]
Usernames == {"alice"}
DirectOps == {"verifyCredentials", "lookupAccount"}

\* variation: searchStatuses goes through fetchApi like the other methods
UsesFetchApiAlways(o) == TRUE

\* searchStatuses calls fetch itself (line 176), every other method calls
\* fetchApi
UsesFetchApi(o) == o # "searchStatuses"

\* new Error("Search failed"): no status field
SearchError == [kind |-> "search", status |-> 0]

\* the query string of searchStatuses, lines 166-171
SearchParams(query, username, limit) ==
  [q |-> <<"from:", username, " ", query>>, type |-> "statuses",
   resolve |-> "true", limit |-> limit]
Queries == {"tla"}
SearchLimits == {20}

\* data.statuses of a search answer
SearchHits ==
  {<<>>, <<[id |-> NewestId, created_at |-> 2, reblog |-> FALSE]>>}

\* if (maxId): undefined and the empty string are falsy, every id the server
\* hands out is a non-empty string; NoId stands for the falsy values
Truthy(cursor) == cursor # NoId

\* variation: the cursor is never put into the request
ParamsOfNoCursor(cursor) == [limit |-> PageLimit, max_id |-> NoId]

\* params = { limit: limit.toString() }; if (maxId) params.max_id = maxId
\* (max_id = NoId stands for a request without the parameter)
ParamsOf(cursor) ==
  [limit |-> PageLimit, max_id |-> IF Truthy(cursor) THEN cursor ELSE NoId]

\* variation: the header is attached whenever a token is configured
RequestTokenOnly(tok, auth, p, rc) ==
  [authHeader |-> tok, useAuth |-> auth, params |-> p, retry |-> rc]

\* headers of a request: Authorization only if this.token && useAuth
Request(tok, auth, p, rc) ==
  [authHeader |-> tok /\ auth, useAuth |-> auth, params |-> p, retry |-> rc]

\* variation: the fallback request continues the retry count of the
\* authenticated request
FreshRetryCountInherited(rc) == rc

\* the default retryCount = 0 of fetchApi (line 20), taken by every call
\* that passes no fourth argument: lines 83-86 and 90-94
FreshRetryCount(rc) == 0

\* variations: a session that fell back stops trying the authenticated
\* request / both requests of a page are issued at once
TryRequestsSticky(tok, was, p) == <<Request(tok, ~was, p, 0)>>
TryRequestsRaced(tok, was, p) ==
  <<Request(tok, TRUE, p, 0), Request(tok, FALSE, p, 0)>>

\* the try block of getStatusesPage: one fetchApi call with the default
\* useAuth = true and retryCount = 0, whatever happened on earlier pages
TryRequests(tok, was, p) == <<Request(tok, TRUE, p, 0)>>

\* variation: lastId is the id of the newest post returned
ResultOfNewestKept(acc, cursor, reached, fell) ==
  [statuses |-> acc, lastId |-> IF acc = <<>> THEN cursor ELSE acc[1].id,
   reachedThreshold |-> reached, fellBack |-> fell]

\* variation: lastId is left out of the returned object
ResultOfNoLastId(acc, cursor, reached, fell) ==
  [statuses |-> acc, lastId |-> NoId, reachedThreshold |-> reached,
   fellBack |-> fell]

\* the value of the return statement
ResultOf(acc, cursor, reached, fell) ==
  [statuses |-> acc, lastId |-> cursor, reachedThreshold |-> reached,
   fellBack |-> fell]

\* --------------------------------------------------- environment: the pages
Reblogged(rb, i) == rb = "all" \/ (rb = "mixed" /\ i % 2 = 1)

\* a page whose ids descend from top, with a chosen date for its oldest post
ChosenPage(top, len, rb, dTail) ==
  [i \in 1..len |->
     [id |-> top - i + 1,
      created_at |-> IF i = len THEN dTail ELSE dTail + 1,
      reblog |-> Reblogged(rb, i)]]

\* a page of an account whose posts older than id oldBelow are old
AccountPage(top, len, below) ==
  [i \in 1..len |->
     [id |-> top - i + 1,
      created_at |-> IF top - i + 1 < below THEN 1 ELSE 3,
      reblog |-> Reblogged("mixed", i)]]

\* first id served: a server that honours max_id serves older posts only
TopOf(srv, cursor) ==
  IF cursor = NoId THEN (IF srv \in {"deep", "oversize"} THEN DeepNewestId
                         ELSE NewestId)
  ELSE IF srv \in {"stuck", "looping"} THEN NewestId
  ELSE cursor - 1

LensOf(srv) ==
  CASE srv \in {"deep", "small"} -> {PageLimit}
    [] srv = "oversize" -> {BigPage}
    [] srv \in {"prompt", "twin"} -> {0, PageLimit}
    [] OTHER -> {0, ShortLen, PageLimit}

\* the Retry-After headers a 429 may carry
RetryAftersOf(srv) == IF srv = "limited" THEN AllRetryAfters ELSE RetryAfters

RbsOf(srv) ==
  IF srv \in {"prompt", "twin", "looping", "plain"} THEN {"mixed"}
  ELSE {"mixed", "all"}

PagesOf(srv, cursor, below) ==
  LET top == TopOf(srv, cursor) IN
  IF srv \in {"deep", "oversize", "small"}
  THEN {AccountPage(top, Min(len, top), below) : len \in LensOf(srv)}
  ELSE {ChosenPage(top, Min(len, top), rb, d) :
          len \in LensOf(srv), rb \in RbsOf(srv), d \in Dates}

\* round-trip times of a request, and the values Math.random() is sampled at
LatenciesOf(srv) == IF srv \in {"honest", "stuck"} THEN {0, SlowMs} ELSE {0}

\* Math.floor(Math.random() * 300) + 200
JittersOf(srv) ==
  IF srv \in {"deep", "oversize", "twin", "looping", "plain"}
  THEN {JitterMin}
  ELSE {JitterMin, JitterMin + JitterSpan - 1}

\* Date.now() after d more milliseconds; beyond ClockMax > TIME_BUDGET the
\* value no longer influences any comparison of the code
Advance(t, d) == Min(t + d, ClockMax)

\* ----------------------------------------------------------------- actions
TypeOK ==
  /\ variant \in {1, 2}
  /\ token \in BOOLEAN
  /\ pc \in {"idle", "loop", "fetching", "backoff", "jitter", "done", "failed"}
  /\ now \in 0..ClockMax
  /\ retryCount \in 0..MaxRetries
  /\ waitTime \in {NaN} \cup Nat
  /\ Len(result) <= 1 /\ Len(error) <= 1

\* the locals and the history of a call that has not started
IdleCall ==
  [pc |-> "idle", op |-> "none", startId |-> NoId, untilDate |-> 0,
   allFilteredStatuses |-> <<>>, maxId |-> NoId, reachedThreshold |-> FALSE,
   hasMore |-> TRUE, totalFetched |-> 0, wasFellBack |-> FALSE,
   startTime |-> 0, params |-> ParamsOf(NoId), useAuth |-> TRUE,
   retryCount |-> 0, waitTime |-> 0, result |-> <<>>, error |-> <<>>,
   fetched |-> <<>>, pageReqs |-> <<>>, pageResps |-> <<>>,
   pageFellBack |-> <<>>, pageWaits |-> <<>>, progress |-> <<>>]

\* the state of App.tsx (lines 13-24) where no App component is rendered
appVars == <<mounted, appAuth, account, statuses, lastId, isLoading, inFlight,
             clicksLeft>>

AppUnmounted ==
  /\ mounted = FALSE
  /\ appAuth = FALSE
  /\ account = FALSE
  /\ statuses = <<>>
  /\ lastId = NoId
  /\ isLoading = FALSE
  /\ inFlight = <<>>
  /\ clicksLeft = 0

InitWith(srvs, toks, pages, faults, belows) ==
  /\ variant \in {1, 2}
  /\ token \in toks
  /\ server \in srvs
  /\ oldBelow \in belows
  /\ pagesLeft = pages
  /\ faultsLeft = faults
  /\ now = 0
  /\ pc = "idle"
  /\ untilDate = 0
  /\ allFilteredStatuses = <<>>
  /\ maxId = NoId
  /\ reachedThreshold = FALSE
  /\ hasMore = TRUE
  /\ totalFetched = 0
  /\ wasFellBack = FALSE
  /\ startTime = 0
  /\ params = ParamsOf(NoId)
  /\ useAuth = TRUE
  /\ retryCount = 0
  /\ waitTime = 0
  /\ result = <<>>
  /\ error = <<>>
  /\ fetched = <<>>
  /\ pageReqs = <<>>
  /\ pageResps = <<>>
  /\ pageFellBack = <<>>
  /\ pageWaits = <<>>
  /\ progress = <<>>
  /\ op = "none"
  /\ startId = NoId
  /\ parked = IdleCall
  /\ AppUnmounted

Init == InitWith({"honest", "stuck"}, {TRUE}, MaxPages, MaxFaults, {0})

envVars == <<variant, token, server, oldBelow, appVars>>
sessionVars == <<untilDate, allFilteredStatuses, maxId, reachedThreshold,
                 hasMore, totalFetched, wasFellBack, startTime>>
historyVars == <<fetched, pageFellBack, progress>>
auxVars == <<op, startId, parked>>

\* getStatusesUntil(accountId, untilDate, startId, onProgress): lines 112-119
Call(u, s) ==
  /\ pc = "idle"
  /\ untilDate' = u
  /\ allFilteredStatuses' = <<>>
  /\ maxId' = s
  /\ reachedThreshold' = FALSE
  /\ hasMore' = TRUE
  /\ totalFetched' = 0
  /\ wasFellBack' = FALSE
  /\ startTime' = now
  /\ op' = "getStatusesUntil"
  /\ startId' = s
  /\ pc' = "loop"
  /\ UNCHANGED <<envVars, parked, pageWaits, pagesLeft, faultsLeft, now, params, useAuth,
                 retryCount, waitTime, result, error, fetched, pageReqs,
                 pageResps, pageFellBack, progress>>

\* variation: the loop condition is inverted
LoopConditionInverted(v, more, reached) == reached

\* the loop condition: while (!reachedThreshold) / while (hasMore && !reached)
LoopCondition(v, more, reached) == (v = 2 => more) /\ ~reached

\* the return statement, lines 153-158 / 326-331
Return(acc, cursor, reached, fell) ==
  /\ result' = <<ResultOf(acc, cursor, reached, fell)>>
  /\ pc' = "done"

\* the loop condition is false: fall out of the loop and return
WhileExit ==
  /\ pc = "loop"
  /\ ~LoopCondition(variant, hasMore, reachedThreshold)
  /\ Return(allFilteredStatuses, maxId, reachedThreshold, wasFellBack)
  /\ UNCHANGED <<envVars, auxVars, pageWaits, pagesLeft, faultsLeft, now, sessionVars, params,
                 useAuth, retryCount, waitTime, error, historyVars,
                 pageReqs, pageResps>>

\* lines 122-125: the time budget is exceeded, break and return
BudgetBreak ==
  /\ pc = "loop"
  /\ LoopCondition(variant, hasMore, reachedThreshold)
  /\ OverBudget(variant, now, startTime)
  /\ Return(allFilteredStatuses, maxId, reachedThreshold, wasFellBack)
  /\ UNCHANGED <<envVars, auxVars, pageWaits, pagesLeft, faultsLeft, now, sessionVars, params,
                 useAuth, retryCount, waitTime, error, historyVars,
                 pageReqs, pageResps>>

\* lines 127-130, 79-86, 22-34: getStatusesPage(accountId, maxId) issues the
\* authenticated request of the page
FetchPage ==
  /\ pc = "loop"
  /\ LoopCondition(variant, hasMore, reachedThreshold)
  /\ ~OverBudget(variant, now, startTime)
  /\ params' = ParamsOf(maxId)
  /\ pageReqs' = TryRequests(token, wasFellBack, ParamsOf(maxId))
  /\ useAuth' = pageReqs'[1].useAuth
  /\ retryCount' = pageReqs'[1].retry
  /\ pageResps' = <<>>
  /\ pageWaits' = <<>>
  /\ pc' = "fetching"
  /\ UNCHANGED <<envVars, auxVars, pagesLeft, faultsLeft, now, sessionVars, waitTime,
                 result, error, historyVars>>

\* lines 131-132 / 301-306: an empty page ends the crawl
RespEmptyPage(d) ==
  /\ pc = "fetching"
  /\ pagesLeft > 0
  /\ <<>> \in PagesOf(server, params.max_id, oldBelow)
  /\ d \in LatenciesOf(server)
  /\ now' = Advance(now, d)
  /\ pagesLeft' = pagesLeft - 1
  /\ pageResps' = Append(pageResps, 200)
  /\ fetched' = Append(fetched, <<>>)
  /\ pageFellBack' = Append(pageFellBack, ~useAuth)
  /\ wasFellBack' = NoteFellBack(wasFellBack, ~useAuth)
  /\ hasMore' = IF variant = 2 THEN FALSE ELSE hasMore
  /\ Return(allFilteredStatuses, maxId, reachedThreshold, wasFellBack')
  /\ UNCHANGED <<envVars, auxVars, pageWaits, faultsLeft, untilDate, allFilteredStatuses, maxId,
                 reachedThreshold, totalFetched, startTime, params, useAuth,
                 retryCount, waitTime, error, pageReqs, progress>>

\* lines 57, 87/95, 131-150 (variant 2: 228, 260/269, 301-323): a 2xx answer
\* with a non-empty body is returned by fetchApi and getStatusesPage and
\* processed by the loop body
RespPage(batch, d) ==
  /\ pc = "fetching"
  /\ pagesLeft > 0
  /\ batch \in PagesOf(server, params.max_id, oldBelow)
  /\ Len(batch) > 0
  /\ d \in LatenciesOf(server)
  /\ now' = Advance(now, d)
  /\ pagesLeft' = pagesLeft - 1
  /\ pageResps' = Append(pageResps, 200)
  /\ fetched' = Append(fetched, batch)
  /\ pageFellBack' = Append(pageFellBack, ~useAuth)
  /\ wasFellBack' = NoteFellBack(wasFellBack, ~useAuth)
  /\ maxId' = CursorOf(batch)
  /\ totalFetched' = AddFetched(totalFetched, batch)
  /\ allFilteredStatuses' = PushAll(allFilteredStatuses, OriginalPosts(batch))
  /\ reachedThreshold' = (reachedThreshold \/ OldestBefore(batch, untilDate))
  /\ progress' = OnProgress(progress, allFilteredStatuses')
  /\ IF variant = 1
     THEN /\ hasMore' = hasMore
          /\ IF Undersized(batch) \/ CapExceeded(variant, totalFetched')
             THEN Return(allFilteredStatuses', maxId', reachedThreshold',
                         wasFellBack')
             ELSE pc' = "jitter" /\ result' = result
     ELSE /\ hasMore' = IF Undersized(batch) THEN FALSE ELSE hasMore
          /\ IF CapExceeded(variant, totalFetched')
             THEN Return(allFilteredStatuses', maxId', reachedThreshold',
                         wasFellBack')
             ELSE pc' = "loop" /\ result' = result
  /\ UNCHANGED <<envVars, auxVars, pageWaits, faultsLeft, untilDate, startTime, params, useAuth,
                 retryCount, waitTime, error, pageReqs>>

\* lines 36-42: a 429 within the retry budget; the wait is computed and slept
RespRetry(st, ra, d) ==
  /\ pc = "fetching"
  /\ UsesFetchApi(op)
  /\ faultsLeft > 0
  /\ ShouldRetry(variant, st, retryCount)
  /\ d \in LatenciesOf(server)
  /\ now' = Advance(now, d)
  /\ faultsLeft' = faultsLeft - 1
  /\ pageResps' = Append(pageResps, st)
  /\ waitTime' = WaitTimeOf(ra, retryCount)
  /\ pageWaits' = Append(pageWaits, [answer |-> Len(pageResps'),
                                      retryAfter |-> ra,
                                      wait |-> waitTime'])
  /\ pc' = "backoff"
  /\ UNCHANGED <<envVars, auxVars, pagesLeft, sessionVars, params, useAuth,
                 retryCount, result, error, historyVars, pageReqs>>

\* line 43: the delay has elapsed, fetchApi calls itself with retryCount + 1
BackoffElapsed ==
  /\ pc = "backoff"
  /\ now' = Advance(now, Slept(waitTime))
  /\ retryCount' = retryCount + 1
  /\ pageReqs' = Append(pageReqs, Request(token, useAuth, params,
                                          retryCount + 1))
  /\ pc' = "fetching"
  /\ UNCHANGED <<envVars, auxVars, pageWaits, pagesLeft, faultsLeft, sessionVars, params,
                 useAuth, waitTime, result, error, historyVars, pageResps>>

\* lines 46-55, 88-95: the authenticated call fails with 401 or 403 and the
\* catch block issues the same request without authentication
RespFallBack(st, d) ==
  /\ pc = "fetching"
  /\ faultsLeft > 0
  /\ ~ShouldRetry(variant, st, retryCount)
  /\ ShouldFallBack(useAuth, st)
  /\ d \in LatenciesOf(server)
  /\ now' = Advance(now, d)
  /\ faultsLeft' = faultsLeft - 1
  /\ pageResps' = Append(pageResps, st)
  /\ useAuth' = FALSE
  /\ retryCount' = FreshRetryCount(retryCount)
  /\ pageReqs' = Append(pageReqs, Request(token, FALSE, params, retryCount'))
  /\ UNCHANGED <<envVars, auxVars, pageWaits, pagesLeft, pc, sessionVars, params, waitTime,
                 result, error, historyVars>>

\* lines 46-55, 97: any other non-ok answer is thrown up to the caller
RespFail(st, d) ==
  /\ pc = "fetching"
  /\ faultsLeft > 0
  /\ ~ShouldRetry(variant, st, retryCount)
  /\ ~ShouldFallBack(useAuth, st)
  /\ d \in LatenciesOf(server)
  /\ now' = Advance(now, d)
  /\ faultsLeft' = faultsLeft - 1
  /\ pageResps' = Append(pageResps, st)
  /\ error' = <<HttpError(st)>>
  /\ pc' = "failed"
  /\ UNCHANGED <<envVars, auxVars, pageWaits, pagesLeft, sessionVars, params, useAuth,
                 retryCount, waitTime, result, historyVars, pageReqs>>

\* line 34: fetch itself rejects (no response); the rejection has no status,
\* so the test of the catch block (line 89) fails for it and it is rethrown
RespNetworkFail(d) ==
  /\ pc = "fetching"
  /\ faultsLeft > 0
  /\ op = "getStatusesUntil" => ~ShouldFallBack(useAuth, NetworkError.status)
  /\ d \in LatenciesOf(server)
  /\ now' = Advance(now, d)
  /\ faultsLeft' = faultsLeft - 1
  /\ pageResps' = Append(pageResps, 0)
  /\ error' = <<NetworkError>>
  /\ pc' = "failed"
  /\ UNCHANGED <<envVars, auxVars, pageWaits, pagesLeft, sessionVars, params, useAuth,
                 retryCount, waitTime, result, historyVars, pageReqs>>

\* line 150: the inter-page delay has elapsed, back to the loop condition
JitterElapsed(j) ==
  /\ pc = "jitter"
  /\ now' = Advance(now, j)
  /\ pc' = "loop"
  /\ UNCHANGED <<envVars, auxVars, pageWaits, pagesLeft, faultsLeft, sessionVars, params,
                 useAuth, retryCount, waitTime, result, error, historyVars,
                 pageReqs, pageResps>>

\* lines 60-63: verifyCredentials() throws without a token, else calls
\* fetchApi("accounts/verify_credentials")
VerifyCredentials ==
  /\ pc = "idle"
  /\ op' = "verifyCredentials"
  /\ pageResps' = <<>>
  /\ pageWaits' = <<>>
  /\ IF TokenMissing(token)
     THEN /\ error' = <<PreconditionError>>
          /\ pc' = "failed"
          /\ pageReqs' = <<>>
          /\ UNCHANGED <<params, useAuth, retryCount>>
     ELSE /\ params' = EmptyParams
          /\ useAuth' = TRUE
          /\ retryCount' = 0
          /\ pageReqs' = <<Request(token, TRUE, EmptyParams, 0)>>
          /\ pc' = "fetching"
          /\ error' = error
  /\ UNCHANGED <<envVars, startId, parked, pagesLeft, faultsLeft, now,
                 sessionVars, waitTime, result, historyVars>>

\* lines 65-69: lookupAccount(username) calls fetchApi("accounts/lookup",
\* { acct: username })
LookupAccount(username) ==
  /\ pc = "idle"
  /\ op' = "lookupAccount"
  /\ params' = LookupParams(username)
  /\ useAuth' = TRUE
  /\ retryCount' = 0
  /\ pageReqs' = <<Request(token, TRUE, LookupParams(username), 0)>>
  /\ pageResps' = <<>>
  /\ pageWaits' = <<>>
  /\ pc' = "fetching"
  /\ UNCHANGED <<envVars, startId, parked, pagesLeft, faultsLeft, now,
                 sessionVars, waitTime, result, error, historyVars>>

\* lines 161-176: searchStatuses builds its own request (Authorization
\* whenever a token is configured) and calls fetch
SearchStatuses(query, username, limit) ==
  /\ pc = "idle"
  /\ op' = "searchStatuses"
  /\ params' = SearchParams(query, username, limit)
  /\ useAuth' = TRUE
  /\ retryCount' = 0
  /\ pageReqs' = <<Request(token, TRUE, params', 0)>>
  /\ pageResps' = <<>>
  /\ pageWaits' = <<>>
  /\ pc' = "fetching"
  /\ UNCHANGED <<envVars, startId, parked, pagesLeft, faultsLeft, now,
                 sessionVars, waitTime, result, error, historyVars>>

\* lines 179-181: a 2xx answer, data.statuses is returned
RespSearchOk(hits, d) ==
  /\ pc = "fetching"
  /\ op = "searchStatuses"
  /\ pagesLeft > 0
  /\ now' = Advance(now, d)
  /\ pagesLeft' = pagesLeft - 1
  /\ pageResps' = Append(pageResps, 200)
  /\ fetched' = Append(fetched, hits)
  /\ result' = <<hits>>
  /\ pc' = "done"
  /\ UNCHANGED <<envVars, auxVars, pageWaits, faultsLeft, sessionVars, params,
                 useAuth, retryCount, waitTime, error, pageFellBack, progress,
                 pageReqs>>

\* line 179: if (!response.ok) throw new Error("Search failed")
RespSearchFail(st, d) ==
  /\ pc = "fetching"
  /\ op = "searchStatuses"
  /\ faultsLeft > 0
  /\ now' = Advance(now, d)
  /\ faultsLeft' = faultsLeft - 1
  /\ pageResps' = Append(pageResps, st)
  /\ error' = <<SearchError>>
  /\ pc' = "failed"
  /\ UNCHANGED <<envVars, auxVars, pageWaits, pagesLeft, sessionVars, params,
                 useAuth, retryCount, waitTime, result, historyVars, pageReqs>>

\* line 57: a 2xx answer, its JSON body is returned to the caller
RespJson(d) ==
  /\ pc = "fetching"
  /\ op \in DirectOps
  /\ pagesLeft > 0
  /\ d \in LatenciesOf(server)
  /\ now' = Advance(now, d)
  /\ pagesLeft' = pagesLeft - 1
  /\ pageResps' = Append(pageResps, 200)
  /\ result' = <<[account |-> params.acct]>>
  /\ pc' = "done"
  /\ UNCHANGED <<envVars, auxVars, pageWaits, faultsLeft, sessionVars, params,
                 useAuth, retryCount, waitTime, error, historyVars, pageReqs>>

\* lines 46-55: a non-ok answer that is not retried is thrown to the caller
\* of verifyCredentials / lookupAccount
RespThrow(st, d) ==
  /\ pc = "fetching"
  /\ op \in DirectOps
  /\ faultsLeft > 0
  /\ ~ShouldRetry(variant, st, retryCount)
  /\ d \in LatenciesOf(server)
  /\ now' = Advance(now, d)
  /\ faultsLeft' = faultsLeft - 1
  /\ pageResps' = Append(pageResps, st)
  /\ error' = <<HttpError(st)>>
  /\ pc' = "failed"
  /\ UNCHANGED <<envVars, auxVars, pageWaits, pagesLeft, sessionVars, params,
                 useAuth, retryCount, waitTime, result, historyVars, pageReqs>>

Next ==
  \/ \E u \in UntilDates, s \in StartIds : Call(u, s)
  \/ WhileExit
  \/ BudgetBreak
  \/ FetchPage
  \/ \E d \in LatenciesOf(server) : RespEmptyPage(d)
  \/ \E batch \in PagesOf(server, params.max_id, oldBelow),
        d \in LatenciesOf(server) : RespPage(batch, d)
  \/ \E st \in ErrorStatuses \cup {429}, ra \in RetryAftersOf(server),
        d \in LatenciesOf(server) : RespRetry(st, ra, d)
  \/ BackoffElapsed
  \/ \E st \in ErrorStatuses \cup {429, NetworkError.status},
        d \in LatenciesOf(server) : RespFallBack(st, d)
  \/ \E st \in ErrorStatuses \cup {429}, d \in LatenciesOf(server) :
        RespFail(st, d)
  \/ \E d \in LatenciesOf(server) : RespNetworkFail(d)
  \/ \E j \in JittersOf(server) : JitterElapsed(j)

Spec == Init /\ [][Next]_vars

\* the request layer under many faults: few pages, any token configuration
InitHttp == InitWith({"prompt"}, BOOLEAN, HttpPages, HttpFaults, {0})

SpecHttp == InitHttp /\ [][Next]_vars

\* two pages under enough faults to use up the retries of the authenticated
\* and of the unauthenticated request of one page
InitQuota == InitWith({"prompt"}, {TRUE}, QuotaPages, QuotaFaults, {0})

SpecQuota == InitQuota /\ [][Next]_vars

\* the retry logic against a rate-limiting server whose 429 answers carry
\* every form of Retry-After header
InitRetry == InitWith({"limited"}, {TRUE}, RetryPages, RetryFaults, {0})

SpecRetry == InitRetry /\ [][Next]_vars

\* variation: the locals of getStatusesUntil are fields of the service object
ResumedShared(saved, left) == left

\* a local of a call that is resumed holds what that call left in it (saved),
\* whatever the call that ran meanwhile has left in its own local
Resumed(saved, left) == saved

\* the locals and the history of the running call
Session ==
  [pc |-> pc, op |-> op, startId |-> startId, untilDate |-> untilDate,
   allFilteredStatuses |-> allFilteredStatuses, maxId |-> maxId,
   reachedThreshold |-> reachedThreshold, hasMore |-> hasMore,
   totalFetched |-> totalFetched, wasFellBack |-> wasFellBack,
   startTime |-> startTime, params |-> params, useAuth |-> useAuth,
   retryCount |-> retryCount, waitTime |-> waitTime, result |-> result,
   error |-> error, fetched |-> fetched, pageReqs |-> pageReqs,
   pageResps |-> pageResps, pageFellBack |-> pageFellBack,
   pageWaits |-> pageWaits, progress |-> progress]

\* the event loop resumes the other call of the service object; a call is
\* suspended only at an await, never between the loop test and the request
Switch ==
  /\ pc # "loop"
  /\ parked' = Session
  /\ pc' = parked.pc
  /\ op' = parked.op
  /\ startId' = Resumed(parked.startId, startId)
  /\ untilDate' = Resumed(parked.untilDate, untilDate)
  /\ allFilteredStatuses' =
       Resumed(parked.allFilteredStatuses, allFilteredStatuses)
  /\ maxId' = Resumed(parked.maxId, maxId)
  /\ reachedThreshold' = Resumed(parked.reachedThreshold, reachedThreshold)
  /\ hasMore' = Resumed(parked.hasMore, hasMore)
  /\ totalFetched' = Resumed(parked.totalFetched, totalFetched)
  /\ wasFellBack' = Resumed(parked.wasFellBack, wasFellBack)
  /\ startTime' = Resumed(parked.startTime, startTime)
  /\ params' = Resumed(parked.params, params)
  /\ useAuth' = Resumed(parked.useAuth, useAuth)
  /\ retryCount' = Resumed(parked.retryCount, retryCount)
  /\ waitTime' = Resumed(parked.waitTime, waitTime)
  /\ result' = parked.result
  /\ error' = parked.error
  /\ fetched' = parked.fetched
  /\ pageReqs' = parked.pageReqs
  /\ pageResps' = parked.pageResps
  /\ pageFellBack' = parked.pageFellBack
  /\ pageWaits' = parked.pageWaits
  /\ progress' = parked.progress
  /\ UNCHANGED <<envVars, pagesLeft, faultsLeft, now>>

\* two getStatusesUntil calls on one service object, their steps interleaved
InitPair == InitWith({"twin"}, {TRUE}, PairPages, PairFaults, {0})

NextPair ==
  \/ \E u \in UntilDates, s \in StartIds : Call(u, s)
  \/ WhileExit
  \/ FetchPage
  \/ \E d \in LatenciesOf(server) : RespEmptyPage(d)
  \/ \E batch \in PagesOf(server, params.max_id, oldBelow),
        d \in LatenciesOf(server) : RespPage(batch, d)
  \/ \E st \in ErrorStatuses, d \in LatenciesOf(server) : RespFallBack(st, d)
  \/ \E j \in JittersOf(server) : JitterElapsed(j)
  \/ Switch

SpecPair == InitPair /\ [][NextPair]_vars

\* the methods that call fetchApi directly, against a rate-limiting server
InitApi == InitWith({"limited"}, BOOLEAN, ApiAnswers, ApiFaults, {0})

NextApi ==
  \/ VerifyCredentials
  \/ \E u \in Usernames : LookupAccount(u)
  \/ \E q \in Queries, u \in Usernames, l \in SearchLimits :
        SearchStatuses(q, u, l)
  \/ \E hits \in SearchHits, d \in LatenciesOf(server) : RespSearchOk(hits, d)
  \/ \E st \in ErrorStatuses \cup {429}, d \in LatenciesOf(server) :
        RespSearchFail(st, d)
  \/ \E d \in LatenciesOf(server) : RespJson(d)
  \/ \E st \in ErrorStatuses \cup {429}, ra \in RetryAftersOf(server),
        d \in LatenciesOf(server) : RespRetry(st, ra, d)
  \/ BackoffElapsed
  \/ \E st \in ErrorStatuses \cup {429}, d \in LatenciesOf(server) :
        RespThrow(st, d)
  \/ \E d \in LatenciesOf(server) : RespNetworkFail(d)

SpecApi == InitApi /\ [][NextApi]_vars

\* a small account served faithfully page by page until it is exhausted,
\* recent throughout (oldBelow = 0) or with old posts below id oldBelow
InitSmall == InitWith({"small"}, BOOLEAN, SmallPages, SmallFaults, {0, 60})

SpecSmall == InitSmall /\ [][Next]_vars

\* long crawls of a large account served without faults, by a server that
\* honours the page limit ("deep") or ignores it ("oversize")
InitCap == InitWith({"deep", "oversize"}, {TRUE}, CapPages, 0, OldBelows)

NextCap ==
  \/ \E u \in UntilDates, s \in {NoId} : Call(u, s)
  \/ WhileExit
  \/ BudgetBreak
  \/ FetchPage
  \/ \E batch \in PagesOf(server, params.max_id, oldBelow),
        d \in LatenciesOf(server) : RespPage(batch, d)
  \/ \E j \in JittersOf(server) : JitterElapsed(j)

SpecCap == InitCap /\ [][NextCap]_vars

\* endless crawls: a server that ignores max_id and serves its newest page,
\* of any size up to the page limit, again and again without faults
InitLoop == InitWith({"looping"}, {TRUE}, CapPages, 0, {0})

NextLoop ==
  \/ \E u \in UntilDates, s \in {NoId} : Call(u, s)
  \/ WhileExit
  \/ BudgetBreak
  \/ FetchPage
  \/ \E d \in LatenciesOf(server) : RespEmptyPage(d)
  \/ \E batch \in PagesOf(server, params.max_id, oldBelow),
        d \in LatenciesOf(server) : RespPage(batch, d)
  \/ \E j \in JittersOf(server) : JitterElapsed(j)

SpecLoop == InitLoop /\ [][NextLoop]_vars

\* src/App.tsx, handleExploreMore / handleFetchAllHistory: the caller has
\* stored the lastId of the call that returned (setLastId(newLastId)) and
\* passes it as startId of the next call; the returned call is kept aside
Resume(u) ==
  /\ pc = "done"
  /\ op = "getStatusesUntil"
  /\ parked.op = "none"
  /\ parked' = Session
  /\ untilDate' = u
  /\ allFilteredStatuses' = <<>>
  /\ maxId' = result[1].lastId
  /\ reachedThreshold' = FALSE
  /\ hasMore' = TRUE
  /\ totalFetched' = 0
  /\ wasFellBack' = FALSE
  /\ startTime' = now
  /\ startId' = result[1].lastId
  /\ result' = <<>>
  /\ fetched' = <<>>
  /\ pageReqs' = <<>>
  /\ pageResps' = <<>>
  /\ pageFellBack' = <<>>
  /\ pageWaits' = <<>>
  /\ progress' = <<>>
  /\ pc' = "loop"
  /\ UNCHANGED <<envVars, op, pagesLeft, faultsLeft, now, params, useAuth,
                 retryCount, waitTime, error>>

\* a crawl that is continued by a second call, against servers that honour
\* max_id: one free in its pages and slow at times, one serving a large
\* account in oversized pages
InitResume ==
  \/ InitWith({"honest"}, {TRUE}, ResumePages - 2, 0, {0})
  \/ InitWith({"oversize"}, {TRUE}, ResumePages, 0, {0})

NextResume ==
  \/ \E u \in UntilDates, s \in {NoId} : Call(u, s)
  \/ \E u \in UntilDates : Resume(u)
  \/ WhileExit
  \/ BudgetBreak
  \/ FetchPage
  \/ \E d \in LatenciesOf(server) : RespEmptyPage(d)
  \/ \E batch \in PagesOf(server, params.max_id, oldBelow),
        d \in LatenciesOf(server) : RespPage(batch, d)
  \/ \E j \in JittersOf(server) : JitterElapsed(j)

SpecResume == InitResume /\ [][NextResume]_vars

\* a request is answered with a 429 that fetchApi retries
Answered429 ==
  \E st \in ErrorStatuses \cup {429}, ra \in RetryAftersOf(server),
     d \in LatenciesOf(server) : RespRetry(st, ra, d)

\* the same call made again on a service of the other class of the source
\* (lines 3-184 instead of 188-357), the finished call kept aside
Replay ==
  /\ pc \in {"done", "failed"}
  /\ op = "getStatusesUntil"
  /\ parked.op = "none"
  /\ variant = 2
  /\ variant' = 1
  /\ parked' = Session
  /\ pagesLeft' = TwinPages
  /\ faultsLeft' = TwinFaults
  /\ allFilteredStatuses' = <<>>
  /\ maxId' = startId
  /\ reachedThreshold' = FALSE
  /\ hasMore' = TRUE
  /\ totalFetched' = 0
  /\ wasFellBack' = FALSE
  /\ startTime' = now
  /\ result' = <<>>
  /\ error' = <<>>
  /\ fetched' = <<>>
  /\ pageReqs' = <<>>
  /\ pageResps' = <<>>
  /\ pageFellBack' = <<>>
  /\ pageWaits' = <<>>
  /\ progress' = <<>>
  /\ pc' = "loop"
  /\ UNCHANGED <<token, server, oldBelow, appVars, now, untilDate, op,
                 startId, params, useAuth, retryCount, waitTime>>

\* the answers the finished call received to the requests of its page p, as
\* far as its history tells them: of a page it was not the last to fetch
\* only whether the first answer was a denial (401 stands for both)
LastPageOf(c) == Len(c.fetched) + (IF c.pc = "failed" THEN 1 ELSE 0)

AnswersOfPage(c, p) ==
  IF p = LastPageOf(c) THEN c.pageResps
  ELSE IF p > Len(c.fetched) THEN <<>>
  ELSE IF c.pageFellBack[p] THEN <<401, 200>> ELSE <<200>>

SameAnswer(a, b, known) ==
  a = b \/ (~known /\ {a, b} \subseteq {401, 403})

\* the second call is given the answers the first one got, request by
\* request, for as long as the first one made requests
Scripted ==
  parked.op = "getStatusesUntil" =>
    LET page == Len(fetched) + (IF pc \in {"fetching", "backoff", "failed"}
                                THEN 1 ELSE 0)
        told == AnswersOfPage(parked, page)
    IN /\ \A k \in 1..Min(Len(fetched), Len(parked.fetched)) :
            fetched[k] = parked.fetched[k]
       /\ \A i \in 1..Min(Len(pageResps), Len(told)) :
            SameAnswer(pageResps[i], told[i], page = LastPageOf(parked))

\* both classes of the source on the same answers: the class at 188-357
\* runs first, then the class at 3-184 is given what the first was given
InitTwin ==
  InitWith({"plain"}, BOOLEAN, TwinPages, TwinFaults, {0}) /\ variant = 2

NextTwin ==
  \/ \E u \in UntilDates, s \in StartIds : Call(u, s)
  \/ Replay
  \/ WhileExit /\ Scripted'
  \/ BudgetBreak /\ Scripted'
  \/ FetchPage /\ Scripted'
  \/ \E d \in LatenciesOf(server) : RespEmptyPage(d) /\ Scripted'
  \/ \E batch \in PagesOf(server, params.max_id, oldBelow),
        d \in LatenciesOf(server) : RespPage(batch, d) /\ Scripted'
  \/ Answered429 /\ Scripted'
  \/ BackoffElapsed /\ Scripted'
  \/ \E st \in ErrorStatuses \cup {429, NetworkError.status},
        d \in LatenciesOf(server) : RespFallBack(st, d) /\ Scripted'
  \/ \E st \in ErrorStatuses \cup {429}, d \in LatenciesOf(server) :
        RespFail(st, d) /\ Scripted'
  \/ \E d \in LatenciesOf(server) : RespNetworkFail(d) /\ Scripted'
  \/ \E j \in JittersOf(server) : JitterElapsed(j) /\ Scripted'

SpecTwin == InitTwin /\ [][NextTwin]_vars

\* servers that never let a crawl end by itself, under fair scheduling
\* (synchronous code runs on, an issued request is answered or its transport
\* fails, a started timer fires): the endless server above, and a server
\* that serves a large account in oversized pages and fails some requests
InitLive ==
  \/ InitWith({"looping"}, {TRUE}, LivePages, 0, {0})
  \/ InitWith({"oversize"}, {TRUE}, LivePages, LiveFaults, {0})

RunsOn == WhileExit \/ BudgetBreak \/ FetchPage

Settled ==
  \/ \E d \in LatenciesOf(server) : RespEmptyPage(d)
  \/ \E batch \in PagesOf(server, params.max_id, oldBelow),
        d \in LatenciesOf(server) : RespPage(batch, d)
  \/ Answered429
  \/ \E st \in ErrorStatuses \cup {429, NetworkError.status},
        d \in LatenciesOf(server) : RespFallBack(st, d)
  \/ \E st \in ErrorStatuses \cup {429}, d \in LatenciesOf(server) :
        RespFail(st, d)
  \/ \E d \in LatenciesOf(server) : RespNetworkFail(d)

TimerFires == BackoffElapsed \/ \E j \in JittersOf(server) : JitterElapsed(j)

\* a call is at one place at a time, so at most one of the three is enabled
Proceeds == RunsOn \/ Settled \/ TimerFires

NextLive ==
  \/ \E u \in UntilDates, s \in {NoId} : Call(u, s)
  \/ WhileExit
  \/ BudgetBreak
  \/ FetchPage
  \/ \E d \in LatenciesOf(server) : RespEmptyPage(d)
  \/ \E batch \in PagesOf(server, params.max_id, oldBelow),
        d \in LatenciesOf(server) : RespPage(batch, d)
  \/ Answered429
  \/ BackoffElapsed
  \/ \E st \in ErrorStatuses \cup {429, NetworkError.status},
        d \in LatenciesOf(server) : RespFallBack(st, d)
  \/ \E st \in ErrorStatuses \cup {429}, d \in LatenciesOf(server) :
        RespFail(st, d)
  \/ \E d \in LatenciesOf(server) : RespNetworkFail(d)
  \/ \E j \in JittersOf(server) : JitterElapsed(j)

SpecLive == InitLive /\ [][NextLive]_vars /\ WF_vars(Proceeds)

\* ------------------------------------------------------ claims: the crawler
RECURSIVE Flatten(_)
Flatten(pages) ==
  IF pages = <<>> THEN <<>> ELSE Head(pages) \o Flatten(Tail(pages))

RECURSIVE DropReblogs(_)
DropReblogs(posts) ==
  IF posts = <<>> THEN <<>>
  ELSE (IF Head(posts).reblog THEN <<>> ELSE <<Head(posts)>>)
       \o DropReblogs(Tail(posts))

\* the non-reblog posts of the pages fetched so far, in fetch order
ExpectedPosts == DropReblogs(Flatten(fetched))

Returned == pc = "done"
Thrown == pc = "failed"
NonEmptyPages == {i \in 1..Len(fetched) : fetched[i] # <<>>}
Crossing(i) ==
  fetched[i] # <<>> /\ fetched[i][Len(fetched[i])].created_at < untilDate
RequestPending == pc \in {"fetching", "backoff"}

\* C1: at every point of a session and in the returned result, the
\* accumulated list holds no reblog and is the concatenation, in fetch order
\* and within-page order, of the non-reblog posts of the pages fetched so far.
C1_AccumulatedIsFilteredConcat ==
  /\ \A i \in 1..Len(allFilteredStatuses) : ~allFilteredStatuses[i].reblog
  /\ allFilteredStatuses = ExpectedPosts
  /\ Returned => result[1].statuses = ExpectedPosts

C1_Witness ==
  /\ Returned
  /\ Cardinality(NonEmptyPages) >= 2
  /\ Len(result[1].statuses) > 0
  /\ Len(result[1].statuses) < totalFetched

\* C2: the first page whose oldest post is strictly earlier than untilDate
\* sets reachedThreshold and is the last page requested; the result holds the
\* non-reblog posts of all pages up to it; a page whose oldest post is dated
\* exactly untilDate does not set reachedThreshold.
C2_ThresholdPageIsLast ==
  /\ reachedThreshold = (\E i \in 1..Len(fetched) : Crossing(i))
  /\ \A i \in 1..Len(fetched) :
       Crossing(i) => i = Len(fetched) /\ ~RequestPending
  /\ Returned =>
       /\ result[1].reachedThreshold = (\E i \in 1..Len(fetched) : Crossing(i))
       /\ result[1].statuses = DropReblogs(Flatten(fetched))

C2_Witness ==
  /\ Returned
  /\ Len(fetched) = 3
  /\ \A i \in 1..3 : Len(fetched[i]) = PageLimit
  /\ ~Crossing(1) /\ ~Crossing(2) /\ Crossing(3)
  /\ fetched[2][PageLimit].created_at = untilDate
  /\ result[1].reachedThreshold

\* C3: after a non-empty page has been processed the cursor is the id of the
\* last element of that page; the next page request and the returned lastId
\* use exactly that value.
C3_CursorIsLastIdOfPage ==
  \A i \in NonEmptyPages :
    (\A j \in NonEmptyPages : j <= i) =>
      LET lastIdOfPage == fetched[i][Len(fetched[i])].id IN
      /\ maxId = lastIdOfPage
      /\ RequestPending =>
           \A k \in 1..Len(pageReqs) : pageReqs[k].params.max_id = lastIdOfPage
      /\ Returned => result[1].lastId = lastIdOfPage

C3_Witness ==
  /\ pc = "fetching"
  /\ Len(fetched) = 2
  /\ pageReqs[1].params.max_id = fetched[2][Len(fetched[2])].id
  /\ fetched[2][1].id # fetched[2][Len(fetched[2])].id

\* C4: a page with fewer than 40 posts is the last page requested: the loop
\* stops right after processing it (posts appended, cursor advanced), whether
\* or not reachedThreshold is true.
C4_UndersizedPageIsLast ==
  \A i \in 1..Len(fetched) :
    Len(fetched[i]) < 40 =>
      /\ i = Len(fetched)
      /\ ~RequestPending /\ pc # "jitter" /\ ~Thrown
      /\ pc = "loop" => variant = 2 /\ ~hasMore
      /\ allFilteredStatuses = DropReblogs(Flatten(fetched))
      /\ fetched[i] # <<>> => maxId = fetched[i][Len(fetched[i])].id

C4_Witness ==
  /\ Returned
  /\ Len(fetched) = 3
  /\ Len(fetched[1]) = PageLimit /\ Len(fetched[2]) = PageLimit
  /\ Len(fetched[3]) > 0 /\ Len(fetched[3]) < PageLimit
  /\ ~result[1].reachedThreshold

\* the page that brought the total-fetched counter over the cap of the variant
OverCap ==
  \/ variant = 1 /\ totalFetched > Cap1
  \/ variant = 2 /\ totalFetched > Cap2

\* C5 as stated: once the total-fetched counter exceeds the cap, the loop
\* stops and the call returns with reachedThreshold = false, whatever the
\* dates of the posts on the page that crossed the cap.
C5_CapReturnsNotReached ==
  OverCap => Returned /\ ~result[1].reachedThreshold

\* C5 (amended): once the total-fetched counter exceeds the cap, the loop
\* stops and the call returns; reachedThreshold is true exactly when the
\* oldest post of the page that crossed the cap is strictly earlier than
\* untilDate, and false otherwise.
C5_CapStopsLoop ==
  OverCap =>
    /\ Returned
    /\ totalFetched - Len(fetched[Len(fetched)]) <=
         (IF variant = 1 THEN Cap1 ELSE Cap2)
    /\ result[1].reachedThreshold = Crossing(Len(fetched))
    /\ \A i \in 1..(Len(fetched) - 1) : ~Crossing(i)

C5_Witness ==
  /\ OverCap
  /\ Returned
  /\ server = "deep"
  /\ Len(fetched) = 251
  /\ result[1].reachedThreshold
  /\ Len(fetched[251]) = PageLimit

\* C6: variant 1: when more than 10000 ms have elapsed at the start of a loop
\* iteration, no further page request is issued and the call returns normally
\* with the posts and cursor accumulated so far and reachedThreshold = false.
C6_TimeBudgetReturnsPartial ==
  [][(pc = "loop" /\ variant = 1 /\ ~reachedThreshold
        /\ now - startTime > 10000)
     => /\ pc' = "done"
        /\ error' = <<>>
        /\ pageReqs' = pageReqs /\ fetched' = fetched
        /\ result' = <<[statuses |-> allFilteredStatuses, lastId |-> maxId,
                        reachedThreshold |-> FALSE,
                        fellBack |-> wasFellBack]>>]_vars

C6_Witness ==
  /\ Returned
  /\ variant = 1
  /\ now - startTime > TIME_BUDGET
  /\ Len(fetched) >= 1
  /\ Len(fetched[Len(fetched)]) = PageLimit
  /\ ~result[1].reachedThreshold
  /\ Len(result[1].statuses) > 0
  /\ result[1].lastId = fetched[Len(fetched)][PageLimit].id

\* ------------------------------------------- claims: the page fetch layers
\* the requests and answers of the getStatusesPage call in progress or last
\* completed: pageResps[i] answers pageReqs[i]
Answered == 1..Len(pageResps)
DeniedAt(i) == pageReqs[i].useAuth /\ pageResps[i] \in {401, 403}
UnauthCalls ==
  {i \in 1..Len(pageReqs) : ~pageReqs[i].useAuth /\ pageReqs[i].retry = 0}
PageReturned ==
  Len(pageResps) = Len(pageReqs) /\ Len(pageResps) > 0
    /\ pageResps[Len(pageResps)] = 200

\* C7: in getStatusesPage, an authenticated request failing with 401 or 403
\* is followed by exactly one unauthenticated call with the same parameters,
\* whose result is returned with fellBack = true; when the authenticated
\* request succeeds there is no unauthenticated request and fellBack = false.
C7_OneFallbackSameParams ==
  /\ Cardinality(UnauthCalls) =
       (IF \E i \in Answered : DeniedAt(i) THEN 1 ELSE 0)
  /\ \A i \in Answered :
       DeniedAt(i) =>
         /\ i < Len(pageReqs)
         /\ ~pageReqs[i + 1].useAuth
         /\ ~pageReqs[i + 1].authHeader
         /\ pageReqs[i + 1].params = pageReqs[i].params
  /\ \A k \in 1..Len(pageReqs) : pageReqs[k].params = pageReqs[1].params
  /\ \A k \in 1..Len(pageReqs), m \in 1..Len(pageReqs) :
       (k < m /\ ~pageReqs[k].useAuth) => ~pageReqs[m].useAuth
  /\ PageReturned =>
       pageFellBack[Len(pageFellBack)] = (\E i \in Answered : DeniedAt(i))

C7_Witness ==
  /\ PageReturned
  /\ Len(pageReqs) = 2
  /\ pageResps[1] = 403
  /\ pageReqs[1].authHeader
  /\ pageReqs[1].params.max_id # NoId
  /\ pageFellBack[Len(pageFellBack)]
  /\ Len(fetched[Len(fetched)]) = PageLimit

\* C8 as stated: no call fails with an error whose status is 401 or 403.
C8_NoAuthErrorSurfaced ==
  Thrown => error[1].status \notin {401, 403}

\* C8 (amended): a 401 or 403 answered to the authenticated request of the
\* statuses page endpoint is never surfaced; a call fails with status 401 or
\* 403 only when the unauthenticated fallback request was answered with it.
C8_AuthorizedDenialNotSurfaced ==
  /\ \A i \in Answered :
       DeniedAt(i) => ~(Thrown /\ i = Len(pageResps))
  /\ (Thrown /\ error[1].status \in {401, 403}) =>
       /\ ~pageReqs[Len(pageReqs)].useAuth
       /\ pageResps[Len(pageResps)] = error[1].status
       /\ \E i \in Answered : DeniedAt(i)

C8_Witness ==
  /\ Returned
  /\ Len(pageResps) = 2
  /\ pageResps[1] = 401
  /\ pageReqs[1].useAuth
  /\ result[1].fellBack

\* C9: an error of a page fetch other than a 401/403 handled by fallback is
\* raised unchanged to the caller of getStatusesUntil, no further request is
\* issued and no result is returned.
Handled(i) ==
  \/ pageResps[i] = 200
  \/ DeniedAt(i)
  \/ variant = 1 /\ pageResps[i] = 429 /\ pageReqs[i].retry < 2

C9_ErrorPropagatesUnchanged ==
  /\ \A i \in Answered :
       ~Handled(i) =>
         /\ Thrown
         /\ i = Len(pageResps)
         /\ Len(pageReqs) = Len(pageResps)
         /\ result = <<>>
         /\ error = <<IF pageResps[i] = 0
                       THEN [kind |-> "network", status |-> 0]
                       ELSE [kind |-> "http", status |-> pageResps[i]]>>
  /\ Thrown => result = <<>> /\ ~Handled(Len(pageResps))
  /\ Returned => error = <<>>

C9_Witness ==
  /\ Thrown
  /\ error[1].status = 500
  /\ Len(fetched) >= 1
  /\ Len(allFilteredStatuses) > 0
  /\ maxId # NoId

\* C10: fetchApi of variant 1: a 429 is retried at most 2 additional times,
\* so one fetchApi call issues at most 3 HTTP requests; a third 429 makes the
\* call fail with status 429; a 2xx on any attempt makes the call succeed.
C10_RetryAtMostTwice ==
  variant = 1 =>
    /\ \A b \in BOOLEAN :
         Cardinality({k \in 1..Len(pageReqs) : pageReqs[k].useAuth = b}) <= 3
    /\ \A k \in 1..Len(pageReqs) :
         /\ pageReqs[k].retry <= 2
         /\ pageReqs[k].retry > 0 =>
              /\ pageResps[k - 1] = 429
              /\ pageReqs[k - 1].retry = pageReqs[k].retry - 1
              /\ pageReqs[k - 1].useAuth = pageReqs[k].useAuth
    /\ \A i \in Answered :
         /\ (pageResps[i] = 429 /\ pageReqs[i].retry = 2) =>
              /\ Thrown
              /\ i = Len(pageResps)
              /\ error = <<[kind |-> "http", status |-> 429]>>
         /\ (pageResps[i] = 429 /\ pageReqs[i].retry < 2) =>
              \/ i = Len(pageReqs) /\ pc = "backoff"
              \/ i < Len(pageReqs) /\ pageReqs[i + 1].retry > 0
         /\ pageResps[i] = 200 =>
              /\ i = Len(pageResps)
              /\ ~Thrown /\ ~RequestPending
              /\ error = <<>>

C10_Witness ==
  /\ variant = 1
  /\ Thrown
  /\ error[1].status = 429
  /\ Len(pageReqs) = 3
  /\ pageResps = <<429, 429, 429>>

\* ------------------------------------------------ claims: retry and fallback
\* C11: the wait before the k-th retry of a 429 (k = 1, 2) is the Retry-After
\* value in seconds times 1000 ms when the response carries the header, and
\* 1000 ms (k = 1) or 2000 ms (k = 2) otherwise; decided per response.
C11_WaitPerResponse ==
  /\ \A i \in 1..Len(pageWaits) :
       LET w == pageWaits[i]
           k == pageReqs[w.answer].retry + 1
       IN /\ pageResps[w.answer] = 429
          /\ k \in {1, 2}
          /\ w.retryAfter \in Nat => w.wait = w.retryAfter * 1000
          /\ w.retryAfter = NoRetryAfter =>
               w.wait = (IF k = 1 THEN 1000 ELSE 2000)
  /\ pc = "backoff" =>
       Len(pageWaits) > 0 /\ waitTime = pageWaits[Len(pageWaits)].wait

C11_Witness ==
  /\ pc = "fetching"
  /\ Len(pageWaits) = 2
  /\ pageWaits[1].retryAfter = RetryAfterSecs
  /\ pageWaits[1].wait = RetryAfterSecs * 1000
  /\ pageWaits[2].retryAfter = NoRetryAfter /\ pageWaits[2].wait = 2000
  /\ pageReqs[3].retry = 2

\* C12 as stated: an empty first page gives posts = [], reachedThreshold =
\* false and fellBack = false, however the page was obtained.
FirstPageEmpty == Returned /\ Len(fetched) = 1 /\ fetched[1] = <<>>

C12_EmptyFirstPageNeverFellBack ==
  FirstPageEmpty =>
    /\ result[1].statuses = <<>>
    /\ ~result[1].reachedThreshold
    /\ ~result[1].fellBack

\* C12 (amended): an empty first page gives posts = [] and reachedThreshold =
\* false; fellBack is true exactly when that page was obtained through the
\* unauthenticated fallback after a 401/403, and false otherwise.
C12_EmptyFirstPage ==
  FirstPageEmpty =>
    /\ result[1].statuses = <<>>
    /\ ~result[1].reachedThreshold
    /\ result[1].fellBack = (\E i \in Answered : DeniedAt(i))
    /\ result[1].fellBack = ~pageReqs[Len(pageReqs)].useAuth

C12_Witness ==
  /\ FirstPageEmpty
  /\ pageResps = <<403, 200>>
  /\ result[1].fellBack
  /\ result[1].statuses = <<>>

\* C14: within a session the fellBack flag starts false, becomes true at the
\* first page served through the fallback and never returns to false; the
\* returned fellBack is true iff some page of the session was served through
\* the fallback.
SomePageFellBack == \E i \in 1..Len(pageFellBack) : pageFellBack[i]

C14_FellBackMonotone ==
  /\ [](wasFellBack = SomePageFellBack)
  /\ [](Returned => result[1].fellBack = SomePageFellBack)
  /\ [][(pc # "idle" /\ wasFellBack) => wasFellBack']_vars

C14_Witness ==
  /\ Returned
  /\ pageFellBack = <<TRUE, FALSE>>
  /\ result[1].fellBack

\* C15: for every page of a session, also after a page that fell back, the
\* first request is the authenticated one, and the unauthenticated request
\* is issued only after that page's authenticated request failed with 401 or
\* 403.
C15_AuthenticatedFirst ==
  /\ Len(pageReqs) > 0 => pageReqs[1].useAuth /\ pageReqs[1].retry = 0
  /\ \A k \in 1..Len(pageReqs) :
       ~pageReqs[k].useAuth =>
         \E i \in 1..(k - 1) :
           /\ pageReqs[i].useAuth
           /\ pageResps[i] \in {401, 403}
           /\ \A m \in (i + 1)..k : ~pageReqs[m].useAuth

C15_Witness ==
  /\ pc = "fetching"
  /\ pageFellBack = <<TRUE>>
  /\ wasFellBack
  /\ Len(pageReqs) = 1
  /\ pageReqs[1].useAuth /\ pageReqs[1].authHeader

\* C16: at most one HTTP request of a session is in flight at any time; a
\* request is issued only after the previous one has completed.
InFlight == Len(pageReqs) - Len(pageResps)

C16_OneRequestInFlight ==
  /\ [](InFlight \in {0, 1} /\ (InFlight = 1 <=> pc = "fetching"))
  /\ [][pageReqs' # pageReqs =>
          /\ Len(pageReqs') = Len(pageResps') + 1
          /\ \/ InFlight = 0
             \/ Len(pageResps') = Len(pageResps) + 1]_vars

C16_Witness ==
  /\ pc = "fetching"
  /\ Len(pageFellBack) = 1
  /\ Len(pageReqs) = 3
  /\ pageResps = <<403, 429>>

\* C17: the retry after a 429 is issued only once the backoff delay of that
\* 429 has fully elapsed, the next page request only once the inter-page
\* jitter delay has fully elapsed, and no request is issued while a delay is
\* pending.
DelayPending == pc \in {"backoff", "jitter"}

C17_DelaysPrecedeRequests ==
  /\ [](DelayPending => InFlight = 0)
  /\ [][pc = "backoff" =>
          /\ pc' = "fetching"
          /\ Len(pageReqs') = Len(pageReqs) + 1
          /\ now' >= (IF now + waitTime < ClockMax THEN now + waitTime
                      ELSE ClockMax)]_vars
  /\ [][pc = "jitter" =>
          /\ pageReqs' = pageReqs
          /\ pc' = "loop"
          /\ now' >= (IF now + 200 < ClockMax THEN now + 200
                      ELSE ClockMax)]_vars
  /\ [][(pc = "loop" /\ pc' = "fetching" /\ variant = 1
           /\ Len(fetched) > 0) =>
          now >= (IF startTime + 200 * Len(fetched) < ClockMax
                  THEN startTime + 200 * Len(fetched) ELSE ClockMax)]_vars

C17_Witness ==
  /\ pc = "fetching"
  /\ variant = 1
  /\ Len(fetched) = 1
  /\ pageResps = <<429, 429>>
  /\ retryCount = 2
  /\ now - startTime = 200 + 1000 + 2000

\* ------------------------------------------- claims: exhausting the account
\* the creation time of the account's very first post
OldestPostDate == AccountPage(1, 1, oldBelow)[1].created_at

Predates == pc # "idle" /\ untilDate < OldestPostDate

\* the last page fetched was empty or shorter than the page limit
HistoryExhausted ==
  Len(fetched) > 0 /\ Len(fetched[Len(fetched)]) < PageLimit

\* C13 as stated: when untilDate is earlier than the account's oldest post,
\* the crawl that runs to the end of the account returns with
\* reachedThreshold = true.
C13_ReachedWhenPredates ==
  (Returned /\ Predates /\ HistoryExhausted) => result[1].reachedThreshold

\* C13 (amended): when untilDate is earlier than the account's oldest post,
\* reachedThreshold never becomes true; the loop ends after a bounded number
\* of page fetches, at the latest with the empty or undersized page that
\* ends the account, and the call returns reachedThreshold = false.
C13_PredatesEndsUnreached ==
  Predates =>
    /\ ~reachedThreshold
    /\ Len(fetched) <= (NewestId \div PageLimit) + 1
    /\ Returned => ~result[1].reachedThreshold
    /\ HistoryExhausted =>
         \/ Returned
         \/ variant = 2 /\ pc = "loop" /\ ~hasMore

C13_Witness ==
  /\ Returned
  /\ Predates
  /\ HistoryExhausted
  /\ Len(fetched) = (NewestId \div PageLimit) + 1
  /\ ~result[1].reachedThreshold
  /\ result[1].lastId \in 1..PageLimit

\* ------------------------------------------------ claims: the direct calls
\* C19: verifyCredentials on a service without a token fails immediately
\* with a precondition error; no HTTP request is issued and nothing is
\* retried.
C19_VerifyNeedsToken ==
  /\ []((op = "verifyCredentials" /\ ~token) =>
          /\ pc = "failed"
          /\ error = <<PreconditionError>>
          /\ result = <<>>
          /\ pageReqs = <<>> /\ pageResps = <<>> /\ pageWaits = <<>>)
  /\ [][(~token /\ op' = "verifyCredentials" /\ op # op') =>
          pc' = "failed" /\ now' = now /\ faultsLeft' = faultsLeft]_vars

C19_Witness ==
  /\ op = "verifyCredentials"
  /\ ~token
  /\ pc = "failed"
  /\ error = <<PreconditionError>>
  /\ pageReqs = <<>>

\* C20: in fetchApi (entered here through verifyCredentials and
\* lookupAccount; searchStatuses does not call it) a non-2xx answer other
\* than 429 fails the call at once with an error carrying that status, after
\* exactly that one response, without retry or delay, on the first attempt
\* and on an attempt that follows a 429 retry.
C20_OtherStatusFailsAtOnce ==
  /\ [](\A i \in 1..Len(pageResps) :
          (op \in DirectOps /\ pageResps[i] \in ErrorStatuses) =>
            /\ i = Len(pageResps) /\ i = Len(pageReqs)
            /\ pc = "failed"
            /\ error = <<HttpError(pageResps[i])>>
            /\ \A k \in 1..Len(pageWaits) : pageWaits[k].answer # i)
  /\ [][(op \in DirectOps /\ Len(pageResps') = Len(pageResps) + 1
           /\ pageResps'[Len(pageResps')] \in ErrorStatuses) =>
          /\ pc' = "failed"
          /\ error'[1].status = pageResps'[Len(pageResps')]
          /\ pageReqs' = pageReqs
          /\ waitTime' = waitTime]_vars

C20_Witness ==
  /\ pc = "failed"
  /\ op = "lookupAccount"
  /\ pageResps = <<429, 500>>
  /\ pageReqs[2].retry = 1
  /\ error = <<HttpError(500)>>

\* --------------------------------------------- claims: concurrent sessions
\* what a getStatusesUntil call returns when it runs alone and is served the
\* pages of the history c.fetched: the non-reblog posts of its own pages in
\* fetch order, the id of the last post it was served (or its start cursor),
\* whether one of its pages crossed its threshold, and whether one of its
\* pages came through the fallback
AloneStatuses(c) ==
  Flatten([i \in 1..Len(c.fetched) |-> DropReblogs(c.fetched[i])])

AloneLastId(c) ==
  LET filled == {i \in 1..Len(c.fetched) : c.fetched[i] # <<>>} IN
  IF filled = {} THEN c.startId
  ELSE LET last == c.fetched[CHOOSE i \in filled : \A k \in filled : k <= i]
       IN last[Len(last)].id

AloneReached(c) ==
  \E i \in 1..Len(c.fetched) :
    /\ c.fetched[i] # <<>>
    /\ c.fetched[i][Len(c.fetched[i])].created_at < c.untilDate

AloneFellBack(c) == \E i \in 1..Len(c.pageFellBack) : c.pageFellBack[i]

AloneResult(c) ==
  [statuses |-> AloneStatuses(c), lastId |-> AloneLastId(c),
   reachedThreshold |-> AloneReached(c), fellBack |-> AloneFellBack(c)]

BothCalls == {Session, parked}

\* C18: two getStatusesUntil sessions whose steps are interleaved do not
\* affect each other: each holds, and returns, exactly the posts, lastId,
\* reachedThreshold and fellBack that follow from its own arguments and its
\* own sequence of server responses.
C18_SessionsIndependent ==
  \A c \in BothCalls :
    c.op = "getStatusesUntil" =>
      /\ c.allFilteredStatuses = AloneStatuses(c)
      /\ c.maxId = AloneLastId(c)
      /\ c.reachedThreshold = AloneReached(c)
      /\ c.wasFellBack = AloneFellBack(c)
      /\ c.startTime <= now
      /\ c.pc = "done" => c.result = <<AloneResult(c)>>

\* both calls ran at the same time (same start time, and each slept between
\* its two pages) and returned different results
C18_Witness ==
  /\ variant = 1
  /\ pc = "done" /\ parked.pc = "done"
  /\ Len(fetched) = 2 /\ Len(parked.fetched) = 2
  /\ startTime = parked.startTime
  /\ startId # parked.startId
  /\ result[1].fellBack /\ ~parked.result[1].fellBack
  /\ result[1].reachedThreshold
  /\ result[1].lastId # parked.result[1].lastId

\* ------------------------------------------------ claims: request contents
\* C21: every request issued by fetchApi carries the Authorization header
\* iff a token is configured and useAuth is true; the fallback request of
\* getStatusesPage and each of its 429 retries never carry it.
AfterDenial(k) == \E i \in 1..(k - 1) : i \in Answered /\ DeniedAt(i)

C21_HeaderIffTokenAndUseAuth ==
  \A k \in 1..Len(pageReqs) :
    /\ pageReqs[k].authHeader = (token /\ pageReqs[k].useAuth)
    /\ AfterDenial(k) => ~pageReqs[k].useAuth /\ ~pageReqs[k].authHeader
    /\ (k > 1 /\ pageResps[k - 1] = 429) =>
         /\ pageReqs[k].useAuth = pageReqs[k - 1].useAuth
         /\ pageReqs[k].authHeader = pageReqs[k - 1].authHeader

C21_Witness ==
  /\ token
  /\ pc = "fetching"
  /\ pageResps = <<401, 429, 429>>
  /\ pageReqs[1].authHeader
  /\ ~pageReqs[2].authHeader /\ pageReqs[2].retry = 0
  /\ ~pageReqs[3].authHeader /\ pageReqs[3].retry = 1
  /\ ~pageReqs[4].authHeader /\ pageReqs[4].retry = 2

\* --------------------------------------------------- claims: the counters
RECURSIVE SumOfSizes(_)
SumOfSizes(pages) ==
  IF pages = <<>> THEN 0 ELSE Len(Head(pages)) + SumOfSizes(Tail(pages))

ReblogsIn(page) == Cardinality({j \in 1..Len(page) : page[j].reblog})

RECURSIVE ReblogsFetched(_)
ReblogsFetched(pages) ==
  IF pages = <<>> THEN 0
  ELSE ReblogsIn(Head(pages)) + ReblogsFetched(Tail(pages))

\* C22: the total-fetched counter equals the sum of the sizes of all pages
\* fetched so far, reblogs included, and the accumulated result holds none
\* of the reblogs: its length is the counter minus the reblogs fetched.
C22_CounterCountsReblogs ==
  /\ totalFetched = SumOfSizes(fetched)
  /\ Len(allFilteredStatuses) = totalFetched - ReblogsFetched(fetched)
  /\ \A i \in 1..Len(allFilteredStatuses) : ~allFilteredStatuses[i].reblog

C22_Witness ==
  /\ Returned
  /\ Len(fetched) = 3
  /\ ReblogsIn(fetched[1]) = PageLimit
  /\ ReblogsIn(fetched[2]) = PageLimit \div 2
  /\ Len(fetched[3]) = ShortLen
  /\ totalFetched = 2 * PageLimit + ShortLen
  /\ Len(result[1].statuses) = totalFetched - ReblogsFetched(fetched)
  /\ Len(result[1].statuses) > 0

\* ----------------------------------------------------- claims: the cursor
\* the ids of the posts served before page i, and the cursor after page i
SeenBefore(i) ==
  UNION {{fetched[k][j].id : j \in 1..Len(fetched[k])} : k \in 1..(i - 1)}

CursorAfter(i) == fetched[i][Len(fetched[i])].id

\* ids grow with time: the smaller id is the older post
CursorMovesOlder ==
  /\ \A i \in NonEmptyPages :
       /\ \A x \in SeenBefore(i) : CursorAfter(i) < x
       /\ \A j \in 1..Len(fetched[i]) : CursorAfter(i) <= fetched[i][j].id
       /\ startId # NoId => CursorAfter(i) < startId
  /\ pc # "idle" =>
       maxId \in {startId} \cup {CursorAfter(i) : i \in NonEmptyPages}

\* C23 as stated: in every session the cursor after a page is the id of a
\* post older than every post seen before, and it never moves back to a
\* newer id.
C23_CursorOnlyOlder == CursorMovesOlder

\* C23 (amended): when the server honours max_id and serves each page
\* newest first, the cursor after a page is the id of a post older than
\* every post seen before in the session and never moves back to a newer
\* id; the code takes the id of the last post of the page as served and
\* compares no ids itself.
C23_CursorOlderOnHonouringServer ==
  /\ server = "honest" => CursorMovesOlder
  /\ \A i \in NonEmptyPages :
       (\A j \in NonEmptyPages : j <= i) => maxId = CursorAfter(i)

C23_Witness ==
  /\ server = "honest"
  /\ startId = 81
  /\ Len(fetched) = 2
  /\ NonEmptyPages = {1, 2}
  /\ maxId = CursorAfter(2)
  /\ CursorAfter(2) < CursorAfter(1)
  /\ CursorAfter(1) < startId
  /\ \A j \in 1..Len(fetched[1]) : CursorAfter(2) < fetched[1][j].id

\* ----------------------------------------------------- claims: first fetch
\* C24: every call of getStatusesUntil issues at least one page request
\* before it returns, also when the first page already satisfies the
\* threshold; no stop condition fires before the first fetch.
C24_FetchesBeforeReturning ==
  /\ []((op = "getStatusesUntil" /\ Returned) =>
          Len(fetched) >= 1 /\ Len(pageReqs) >= 1)
  /\ [][(pc = "loop" /\ fetched = <<>>) =>
          pc' = "fetching" /\ Len(pageReqs') = 1]_vars

C24_Witness ==
  /\ Returned
  /\ Len(fetched) = 1
  /\ Len(fetched[1]) = PageLimit
  /\ Crossing(1)
  /\ result[1].reachedThreshold
  /\ Len(pageReqs) = 1 /\ pageResps = <<200>>

\* ------------------------------------------------ claims: network failure
\* C25: a transport-level failure of a request (fetch rejects, no status) is
\* propagated unmodified and is fatal: fetchApi does not retry it,
\* getStatusesPage does not fall back for it, and getStatusesUntil aborts
\* with that same error.
TransportFailed(i) == pageResps[i] = NetworkError.status

C25_NetworkFailureIsFatal ==
  /\ [](\A i \in 1..Len(pageResps) :
          TransportFailed(i) =>
            /\ i = Len(pageResps) /\ i = Len(pageReqs)
            /\ Thrown
            /\ error = <<[kind |-> "network", status |-> 0]>>
            /\ result = <<>>
            /\ \A k \in 1..Len(pageWaits) : pageWaits[k].answer # i)
  /\ [][(Len(pageResps') = Len(pageResps) + 1
           /\ pageResps'[Len(pageResps')] = 0) =>
          /\ pc' = "failed"
          /\ pageReqs' = pageReqs
          /\ <<useAuth, retryCount, waitTime>>' =
               <<useAuth, retryCount, waitTime>>]_vars

C25_Witness ==
  /\ Thrown
  /\ token
  /\ Len(fetched) = 1
  /\ pageResps = <<0>>
  /\ pageReqs[1].useAuth /\ pageReqs[1].authHeader
  /\ error = <<NetworkError>>

\* --------------------------------------------------------- claims: search
\* C26: searchStatuses issues exactly one HTTP request per call: a non-2xx
\* answer, 429, 401 and 403 included, fails the call without retry, backoff
\* or unauthenticated fallback, and a 2xx answer returns the statuses list
\* of that single response.
C26_SearchIsOneRequest ==
  op = "searchStatuses" =>
    /\ Len(pageReqs) = 1
    /\ pageWaits = <<>>
    /\ pc \in {"fetching", "done", "failed"}
    /\ Len(pageResps) = (IF pc = "fetching" THEN 0 ELSE 1)
    /\ (pc # "fetching" /\ pageResps[1] \in ErrorStatuses \cup {429}) =>
         Thrown /\ result = <<>>
    /\ Returned => pageResps = <<200>> /\ result = <<fetched[1]>>

C26_Witness ==
  /\ op = "searchStatuses"
  /\ variant = 1
  /\ token
  /\ Thrown
  /\ pageResps = <<429>>
  /\ Len(pageReqs) = 1

\* ------------------------------------------------- claims: the page request
\* C27: a page request carries max_id iff a cursor is given, and then with
\* exactly the cursor's value; in a session started without startCursor the
\* first page request has no max_id and every later page request has max_id
\* equal to the id of the last post of the previous page.
HasMaxId(req) == req.params.max_id # NoId

C27_MaxIdIffCursor ==
  RequestPending =>
    \A k \in 1..Len(pageReqs) :
      /\ HasMaxId(pageReqs[k]) <=> maxId # NoId
      /\ HasMaxId(pageReqs[k]) => pageReqs[k].params.max_id = maxId
      /\ pageReqs[k].params.limit = 40
      /\ (startId = NoId /\ fetched = <<>>) => ~HasMaxId(pageReqs[k])
      /\ (startId # NoId /\ fetched = <<>>) =>
           pageReqs[k].params.max_id = startId
      /\ fetched # <<>> =>
           /\ fetched[Len(fetched)] # <<>>
           /\ pageReqs[k].params.max_id = CursorAfter(Len(fetched))

C27_Witness ==
  /\ startId = NoId
  /\ server = "honest"
  /\ pc = "fetching"
  /\ Len(fetched) = 2
  /\ pageReqs = <<[authHeader |-> TRUE, useAuth |-> TRUE, retry |-> 0,
                   params |-> [limit |-> 40, max_id |-> NewestId - 79]]>>

\* ------------------------------------------------------ claims: the jitter
\* C28: in getStatusesUntil (lines 101-159) the inter-page jitter delay is
\* slept only if the loop is continuing: a jitter delay is always followed
\* by another page request of the same call, and none is slept after the
\* page on which reachedThreshold became true or another stop condition
\* fired.
C28_JitterOnlyWhenContinuing ==
  variant = 1 =>
    /\ pc = "jitter" =>
         /\ ~reachedThreshold
         /\ Len(fetched[Len(fetched)]) >= PageLimit
         /\ totalFetched <= 5000
    /\ (pc = "loop" /\ fetched # <<>>) =>
         ~reachedThreshold /\ now - startTime <= TIME_BUDGET

\* ------------------------------------------------------ claims: onProgress
\* the non-reblog posts among the first n pages fetched
OriginalsUpTo(n) ==
  SumOfSizes(SubSeq(fetched, 1, n)) - ReblogsFetched(SubSeq(fetched, 1, n))

\* C29: a supplied progress callback is invoked exactly once for each
\* non-empty page, after the page's non-reblog posts have been appended and
\* before the next page request, with the accumulated non-reblog count at
\* that moment; never for an empty page; the counts never decrease; on a
\* normal return the last count is the length of the returned list.
C29_ProgressPerPage ==
  /\ [](/\ Len(progress) = Cardinality(NonEmptyPages)
        /\ \A n \in 1..Len(progress) :
             /\ n \in NonEmptyPages
             /\ progress[n] = OriginalsUpTo(n)
             /\ n > 1 => progress[n - 1] <= progress[n]
        /\ RequestPending => Len(progress) = Len(fetched)
        /\ (Returned /\ progress # <<>>) =>
             progress[Len(progress)] = Len(result[1].statuses))
  /\ [][progress' # progress =>
          /\ Len(progress') = Len(progress) + 1
          /\ Len(fetched') = Len(fetched) + 1
          /\ fetched'[Len(fetched')] # <<>>
          /\ progress'[Len(progress')] = Len(allFilteredStatuses')
          /\ pageReqs' = pageReqs]_vars
  /\ [][(Len(fetched') = Len(fetched) + 1 /\ fetched'[Len(fetched')] = <<>>)
          => progress' = progress]_vars

C29_Witness ==
  /\ Returned
  /\ Len(fetched) = 3
  /\ fetched[3] = <<>>
  /\ ReblogsIn(fetched[2]) = PageLimit
  /\ progress = <<PageLimit \div 2, PageLimit \div 2>>
  /\ Len(result[1].statuses) = PageLimit \div 2

\* ------------------------------------------------- claims: the empty page
EmptyPageArrives ==
  Len(fetched') = Len(fetched) + 1 /\ fetched'[Len(fetched')] = <<>>

\* C30: when a page fetched by getStatusesUntil is empty, first or later,
\* the loop stops and the cursor, the accumulated posts, the total-fetched
\* counter and reachedThreshold are as before that fetch and the progress
\* callback is not invoked; only fellBack may change. The returned lastId is
\* the cursor before that fetch, the start cursor for a first page.
C30_EmptyPageChangesNothing ==
  /\ [][EmptyPageArrives =>
          /\ pc' = "done"
          /\ maxId' = maxId
          /\ allFilteredStatuses' = allFilteredStatuses
          /\ totalFetched' = totalFetched
          /\ reachedThreshold' = reachedThreshold
          /\ progress' = progress
          /\ wasFellBack => wasFellBack'
          /\ result' = <<[statuses |-> allFilteredStatuses, lastId |-> maxId,
                          reachedThreshold |-> reachedThreshold,
                          fellBack |-> wasFellBack']>>]_vars
  /\ []((Returned /\ fetched # <<>> /\ fetched[Len(fetched)] = <<>>) =>
          result[1].lastId =
            (IF Len(fetched) = 1 THEN startId
             ELSE CursorAfter(Len(fetched) - 1)))

C30_Witness ==
  /\ Returned
  /\ Len(fetched) = 2
  /\ fetched[2] = <<>>
  /\ pageFellBack = <<FALSE, TRUE>>
  /\ result[1].fellBack
  /\ result[1].lastId = CursorAfter(1)
  /\ totalFetched = PageLimit
  /\ progress = <<Len(result[1].statuses)>>

\* ------------------------------------------------- claims: bounded crawls
MaxPagesOfCall(v) == IF v = 1 THEN 126 ELSE 251
MaxFetchedOfCall(v) == IF v = 1 THEN 5040 ELSE 10040

\* C31: whatever the server answers with pages of at most 40 posts, also
\* when it ignores max_id and serves the same full page forever and the
\* threshold is never reached, one getStatusesUntil call fetches at most 126
\* pages and counts at most 5040 posts in the variant at lines 101-159, and
\* at most 251 pages and 10040 posts in the variant at lines 278-332.
C31_CrawlIsBounded ==
  /\ \A i \in 1..Len(fetched) : Len(fetched[i]) <= PageLimit
  /\ Len(fetched) <= MaxPagesOfCall(variant)
  /\ totalFetched <= MaxFetchedOfCall(variant)
  /\ Len(pageFellBack) = Len(fetched)

C31_Witness ==
  /\ Returned
  /\ server = "looping"
  /\ variant = 2
  /\ Len(fetched) = 251
  /\ totalFetched = 10040
  /\ ~result[1].reachedThreshold
  /\ result[1].lastId = fetched[1][PageLimit].id

\* C32: under fair scheduling (an issued request is eventually answered or
\* fails in transport, a backoff or jitter timer eventually fires) every call
\* of getStatusesUntil eventually returns a result or raises an error,
\* whatever the server answers; no call waits on an answer the server has
\* no more to give, so the fairness is never vacuous.
C32_EveryCallSettles ==
  /\ [](op = "getStatusesUntil" => <>(Returned \/ Thrown))
  /\ [](pc = "fetching" => pagesLeft > 0)

C32_Witness ==
  /\ Returned
  /\ variant = 1
  /\ server = "looping"
  /\ faultsLeft = 0
  /\ Len(fetched) >= 40
  /\ \A i \in 1..Len(fetched) : Len(fetched[i]) = PageLimit
  /\ now - startTime > TIME_BUDGET
  /\ ~result[1].reachedThreshold

\* ------------------------------------------- claims: the retry budget
AuthReqs == {k \in 1..Len(pageReqs) : pageReqs[k].useAuth}
UnauthReqs == {k \in 1..Len(pageReqs) : ~pageReqs[k].useAuth}
PageStarts == pc = "loop" /\ pc' = "fetching"
FallsBack ==
  /\ pageReqs # <<>>
  /\ Len(pageReqs') = Len(pageReqs) + 1
  /\ pageReqs[Len(pageReqs)].useAuth
  /\ ~pageReqs'[Len(pageReqs')].useAuth

\* C33: the 429 retry budget belongs to one fetchApi call: the first request
\* of every page and the unauthenticated fallback request start at retry 0
\* whatever retries were used before, and each may be retried twice. One
\* getStatusesPage call issues at most 6 requests, at most 3 authenticated
\* followed by at most 3 unauthenticated, and no authenticated request
\* comes after an unauthenticated one of the same page.
C33_RetryBudgetPerCall ==
  /\ [][PageStarts => pageReqs' = <<Request(token, TRUE, params', 0)>>]_vars
  /\ [][FallsBack =>
          /\ pageReqs'[Len(pageReqs')].retry = 0
          /\ retryCount' = 0]_vars
  /\ [](/\ Len(pageReqs) <= 6
        /\ Cardinality(AuthReqs) <= 3
        /\ Cardinality(UnauthReqs) <= 3
        /\ \A k \in AuthReqs, m \in UnauthReqs : k < m
        /\ \A i \in 1..Len(pageResps) :
             (variant = 1 /\ pageResps[i] = 429 /\ pageReqs[i].retry < 2) =>
               /\ Thrown => i < Len(pageResps)
               /\ i < Len(pageReqs) =>
                    /\ pageReqs[i + 1].retry = pageReqs[i].retry + 1
                    /\ pageReqs[i + 1].useAuth = pageReqs[i].useAuth)

C33_Witness ==
  /\ variant = 1
  /\ Len(fetched) = 2
  /\ Len(fetched[1]) = PageLimit
  /\ Len(pageReqs) = 6
  /\ pageResps = <<429, 429, 403, 429, 429, 200>>
  /\ [k \in 1..6 |-> pageReqs[k].retry] = <<0, 1, 2, 0, 1, 2>>
  /\ [k \in 1..6 |-> pageReqs[k].useAuth] =
       <<TRUE, TRUE, TRUE, FALSE, FALSE, FALSE>>
  /\ pageFellBack = <<FALSE, TRUE>>

\* ------------------------------------------- claims: resuming a crawl
\* the first call has returned and the call now running, or returned, was
\* started from the cursor it left
Continued ==
  /\ parked.op = "getStatusesUntil"
  /\ parked.pc = "done"
  /\ op = "getStatusesUntil"
  /\ startId = parked.result[1].lastId

\* a call that returned though the account had more to give: its last page
\* was neither empty nor undersized
CutShort(c) ==
  /\ c.fetched # <<>>
  /\ Len(c.fetched[Len(c.fetched)]) >= PageLimit

CutByThreshold(c) == CutShort(c) /\ c.result[1].reachedThreshold
CutByCap(c) == CutShort(c) /\ c.totalFetched > HardCap(variant)
CutByBudget(c) ==
  CutShort(c) /\ ~c.result[1].reachedThreshold
    /\ c.totalFetched <= HardCap(variant)

\* the pages of both calls in the order they were fetched, and their posts
BothPages == SelectSeq(parked.fetched \o fetched, LAMBDA b : b # <<>>)
BothPosts == Flatten(BothPages)
Kept(posts) == SelectSeq(posts, LAMBDA st : ~st.reblog)
BothStatuses == parked.result[1].statuses \o allFilteredStatuses

\* the non-empty page fetched last before the page request in progress or
\* last answered: the last page of all unless that is the answer itself
PageBeforeRequest ==
  LET answered == /\ ~RequestPending
                  /\ fetched # <<>>
                  /\ fetched[Len(fetched)] # <<>>
  IN BothPages[Len(BothPages) - (IF answered THEN 1 ELSE 0)]
OldestId(page) == page[Len(page)].id

\* C34: when a getStatusesUntil call has returned after being cut short
\* (threshold, time budget or item cap) and a second call is started from
\* the lastId it returned, then against a server that honours max_id the
\* second call asks for the posts just below that cursor, the pages of the
\* two calls are consecutive without overlap or gap, and the posts of the
\* first call followed by those of the second are the non-reblog posts of
\* all these pages in order: what one uninterrupted crawl would return.
C34_ResumeContinues ==
  (Continued /\ CutShort(parked) /\ server \in {"honest", "oversize"}) =>
    /\ \A k \in 1..Len(pageReqs) :
         pageReqs[k].params.max_id = OldestId(PageBeforeRequest)
    /\ \A k \in 1..(Len(BothPosts) - 1) :
         BothPosts[k + 1].id = BothPosts[k].id - 1
    /\ BothStatuses = Kept(BothPosts)
    /\ Returned => parked.result[1].statuses \o result[1].statuses
                     = Kept(BothPosts)

C34_Witness ==
  /\ Continued
  /\ CutByBudget(parked)
  /\ Returned
  /\ Len(parked.fetched) = 1
  /\ Len(fetched) = 2
  /\ Len(fetched[1]) = PageLimit
  /\ Len(fetched[2]) = ShortLen
  /\ Len(parked.result[1].statuses) > 0
  /\ Len(result[1].statuses) > Len(fetched[2])

\* ------------------------------------------- claims: the time budget
Expired == variant = 1 /\ now - startTime > TIME_BUDGET
PageArrives == Len(fetched') = Len(fetched) + 1
ArrivedPage == fetched'[Len(fetched')]

\* C35: the time budget of getStatusesUntil (lines 101-159) is tested only
\* at the start of an iteration. A page request is issued only within the
\* budget; once issued, it is carried through though the budget expires
\* meanwhile: its backoff waits are followed by the retry, a 401/403 by the
\* unauthenticated request, and the page that arrives is processed in full
\* (cursor, counter, posts, threshold, progress). The expired budget shows
\* only at the next loop test, which returns without a further request.
C35_BudgetNeverInterrupts ==
  /\ [][(pc = "loop" /\ pc' = "fetching") => ~Expired]_vars
  /\ [][(Expired' /\ RequestPending) =>
          \/ RequestPending' /\ Len(pageReqs') >= Len(pageReqs)
                /\ UNCHANGED <<fetched, result, error>>
          \/ Thrown' /\ UNCHANGED <<fetched, result>>
          \/ PageArrives /\ ArrivedPage = <<>>
          \/ /\ PageArrives
             /\ maxId' = OldestId(ArrivedPage)
             /\ totalFetched' = totalFetched + Len(ArrivedPage)
             /\ allFilteredStatuses' =
                  allFilteredStatuses \o Kept(ArrivedPage)
             /\ reachedThreshold' =
                  (ArrivedPage[Len(ArrivedPage)].created_at < untilDate)
             /\ progress' = Append(progress, Len(allFilteredStatuses'))
             /\ error' = <<>>]_vars
  /\ [][(pc = "backoff" /\ variant = 1) =>
          pc' = "fetching" /\ Len(pageReqs') = Len(pageReqs) + 1]_vars
  /\ [][(pc = "loop" /\ Expired /\ ~reachedThreshold) =>
          Returned' /\ pageReqs' = pageReqs /\ fetched' = fetched]_vars

C35_Witness ==
  /\ Returned
  /\ Expired
  /\ Len(fetched) = 1
  /\ Len(fetched[1]) = PageLimit
  /\ pageResps = <<429, 429, 401, 200>>
  /\ result[1].fellBack
  /\ ~result[1].reachedThreshold
  /\ result[1].lastId = OldestId(fetched[1])
  /\ Len(result[1].statuses) > 0
  /\ progress = <<Len(result[1].statuses)>>

\* ------------------------------------------- claims: the two variants
\* the call of the class at 188-357 has settled, and the call of the class
\* at 3-184 made with the same arguments on the same answers has settled too
BothSettled ==
  /\ parked.op = "getStatusesUntil"
  /\ variant = 1
  /\ pc \in {"done", "failed"}

WithinLimits ==
  /\ now - startTime <= TIME_BUDGET
  /\ totalFetched <= Cap1
  /\ parked.totalFetched <= Cap1

Agree ==
  /\ result = parked.result
  /\ error = parked.error
  /\ fetched = parked.fetched
  /\ pageFellBack = parked.pageFellBack
  /\ pageReqs = parked.pageReqs
  /\ maxId = parked.maxId

Saw429 == \E i \in 1..Len(parked.pageResps) : parked.pageResps[i] = 429

\* C36: the two variants of MastodonService (lines 3-184 and 188-357) differ
\* only in the total-item cap, the time budget and the inter-page jitter: on
\* the same sequence of server answers, with no cap reached and the time
\* budget not expired, both variants of getStatusesUntil issue the same
\* sequence of requests and end alike, with the same posts, lastId,
\* reachedThreshold and fellBack.
C36_VariantsAgree == (BothSettled /\ WithinLimits) => Agree

\* what does hold of the code: the variants agree whenever none of the
\* answers is a 429, the one status that fetchApi at 36-44 retries and
\* fetchApi at 217-226 throws at once
VariantsAgreeWithout429 ==
  (BothSettled /\ WithinLimits /\ ~Saw429) => Agree

\* both variants returned the same two pages, the first through the fallback
VariantsAgreedOnTwoPages ==
  /\ BothSettled
  /\ WithinLimits
  /\ ~Saw429
  /\ Returned
  /\ Len(fetched) = 2
  /\ Len(fetched[2]) = ShortLen
  /\ pageFellBack = <<TRUE, FALSE>>
  /\ result[1].reachedThreshold
  /\ result[1].fellBack
  /\ result = parked.result

\* ------------------------------------------------- the caller: src/App.tsx
\* The stored post list is kept as the ids of the pages it was built from;
\* the account holds the pages AppNewest .. 1, newest first, and a crawl
\* started at cursor c returns the next k of them below c.  The display
\* state of App.tsx (fetchCount, error, hasReadStatuses, the filters) is
\* read by no handler guard and is left out.
AppNewest == 3
AppTriggers == 5

serviceVars == <<variant, token, server, oldBelow, pagesLeft, faultsLeft, now,
                 pc, untilDate, allFilteredStatuses, maxId, reachedThreshold,
                 hasMore, totalFetched, wasFellBack, startTime, params,
                 useAuth, retryCount, waitTime, result, error, fetched,
                 pageReqs, pageResps, pageFellBack, pageWaits, progress, op,
                 startId, parked>>

\* an invocation of a handler suspended at its await of a service method
Awaiting(handler, method, cursor) ==
  [handler |-> handler, at |-> method, startId |-> cursor]

WithoutCall(i) ==
  SubSeq(inFlight, 1, i - 1) \o SubSeq(inFlight, i + 1, Len(inFlight))

\* getStatusesUntil as its caller sees it: the pages below the cursor
TopOfCursor(cursor) == IF cursor = NoId THEN AppNewest + 1 ELSE cursor

PagesBelow(cursor) == TopOfCursor(cursor) - 1

CrawledPages(cursor, k) == [i \in 1..k |-> TopOfCursor(cursor) - i]

CrawledLastId(cursor, k) == IF k = 0 THEN cursor ELSE TopOfCursor(cursor) - k

CrawlLengths(cursor) ==
  IF PagesBelow(cursor) = 0 THEN {0} ELSE 1..PagesBelow(cursor)

\* lines 52-55: fetchInitialData up to its first await
StartInitialData ==
  /\ isLoading' = TRUE
  /\ inFlight' = Append(inFlight,
                        Awaiting("fetchInitialData", "verifyCredentials", NoId))

\* lines 13-16, 149-153: the first render; auth comes from localStorage and
\* the effect calls fetchInitialData when it is there
Mount ==
  /\ ~mounted
  /\ mounted' = TRUE
  /\ clicksLeft' = AppTriggers
  /\ \E saved \in BOOLEAN :
       /\ appAuth' = saved
       /\ IF saved THEN StartInitialData
                   ELSE UNCHANGED <<isLoading, inFlight>>
  /\ UNCHANGED <<serviceVars, account, statuses, lastId>>

\* lines 182-192, then the effect of 149-153: the login form is rendered
\* only while auth is null (line 279)
handleLogin ==
  /\ mounted /\ ~appAuth /\ clicksLeft > 0
  /\ clicksLeft' = clicksLeft - 1
  /\ appAuth' = TRUE
  /\ StartInitialData
  /\ UNCHANGED <<serviceVars, mounted, account, statuses, lastId>>

\* lines 194-207: the state handleLogout sets
LoggedOut ==
  /\ appAuth' = FALSE
  /\ account' = FALSE
  /\ statuses' = <<>>

\* line 463: the logout button of the main view
handleLogout ==
  /\ mounted /\ appAuth /\ clicksLeft > 0
  /\ clicksLeft' = clicksLeft - 1
  /\ LoggedOut
  /\ UNCHANGED <<serviceVars, mounted, lastId, isLoading, inFlight>>

\* line 92 / 125: the early return of both handlers
HandlerReturnsEarly == ~appAuth \/ ~account \/ isLoading

\* lines 93, 103-112 / 126, 129-138: setIsLoading(true), then the await of
\* getStatusesUntil(account.id, threshold, lastId, ...)
AwaitCrawlFromCursor(handler) ==
  /\ isLoading' = TRUE
  /\ inFlight' = Append(inFlight,
                        Awaiting(handler, "getStatusesUntil", lastId))

\* lines 91-112: a click on the first button of the main view (line 591)
handleExploreMore ==
  /\ mounted /\ appAuth /\ clicksLeft > 0
  /\ clicksLeft' = clicksLeft - 1
  /\ IF HandlerReturnsEarly
       THEN UNCHANGED <<isLoading, inFlight>>
       ELSE AwaitCrawlFromCursor("handleExploreMore")
  /\ UNCHANGED <<serviceVars, mounted, appAuth, account, statuses, lastId>>

\* lines 124-138: a click on the second button of the main view (line 619)
handleFetchAllHistory ==
  /\ mounted /\ appAuth /\ clicksLeft > 0
  /\ clicksLeft' = clicksLeft - 1
  /\ IF HandlerReturnsEarly
       THEN UNCHANGED <<isLoading, inFlight>>
       ELSE AwaitCrawlFromCursor("handleFetchAllHistory")
  /\ UNCHANGED <<serviceVars, mounted, appAuth, account, statuses, lastId>>

\* lines 58-59, 68-77: verifyCredentials resolved; fetchInitialData goes on
\* to getStatusesUntil(acc.id, thresholdDate, undefined)
VerifyResolved(i) ==
  /\ i \in 1..Len(inFlight)
  /\ inFlight[i].at = "verifyCredentials"
  /\ account' = TRUE
  /\ inFlight' = [inFlight EXCEPT ![i].at = "getStatusesUntil"]
  /\ UNCHANGED <<serviceVars, mounted, appAuth, statuses, lastId, isLoading,
                 clicksLeft>>

\* lines 78-80 / 114-116 / 139-141 and the finally: getStatusesUntil
\* resolved with the k pages below the cursor it was started from
CrawlResolved(i, k) ==
  /\ i \in 1..Len(inFlight)
  /\ inFlight[i].at = "getStatusesUntil"
  /\ k \in CrawlLengths(inFlight[i].startId)
  /\ statuses' = IF inFlight[i].handler = "fetchInitialData"
                   THEN CrawledPages(inFlight[i].startId, k)
                   ELSE statuses \o CrawledPages(inFlight[i].startId, k)
  /\ lastId' = CrawledLastId(inFlight[i].startId, k)
  /\ isLoading' = FALSE
  /\ inFlight' = WithoutCall(i)
  /\ UNCHANGED <<serviceVars, mounted, appAuth, account, clicksLeft>>

\* lines 81-88 / 117-121 / 142-146: the awaited call rejected with status
\* st; fetchInitialData logs out on a 401, every handler ends in the finally
CallRejected(i, st) ==
  /\ i \in 1..Len(inFlight)
  /\ IF inFlight[i].handler = "fetchInitialData" /\ st = 401
       THEN LoggedOut
       ELSE UNCHANGED <<appAuth, account, statuses>>
  /\ isLoading' = FALSE
  /\ inFlight' = WithoutCall(i)
  /\ UNCHANGED <<serviceVars, mounted, lastId, clicksLeft>>

InitApp == InitWith({"honest"}, {TRUE}, 0, 0, {0}) /\ variant = 1

NextApp ==
  \/ Mount
  \/ handleLogin
  \/ handleLogout
  \/ handleExploreMore
  \/ handleFetchAllHistory
  \/ \E i \in 1..AppTriggers + 1 : VerifyResolved(i)
  \/ \E i \in 1..AppTriggers + 1, k \in 0..AppNewest : CrawlResolved(i, k)
  \/ \E i \in 1..AppTriggers + 1, st \in ErrorStatuses : CallRejected(i, st)

SpecApp == InitApp /\ [][NextApp]_vars

\* ------------------------------------------------ claims: the App caller
FromStoredCursor(c) ==
  c.handler \in {"handleExploreMore", "handleFetchAllHistory"}

Crawling == \E i \in 1..Len(inFlight) : inFlight[i].at = "getStatusesUntil"

CursorCrawls == {i \in 1..Len(inFlight) : FromStoredCursor(inFlight[i])}

StartsCursorCrawl ==
  /\ Len(inFlight') = Len(inFlight) + 1
  /\ FromStoredCursor(inFlight'[Len(inFlight')])

NoPageTwice ==
  \A i, j \in 1..Len(statuses) : statuses[i] = statuses[j] => i = j

\* C37: in App.tsx, handleExploreMore and handleFetchAllHistory start no
\* crawl while isLoading is true, and isLoading is true from the start of
\* any crawl until it has settled; so for any sequence of user triggers at
\* most one getStatusesUntil session started from the stored cursor is in
\* flight at a time, and no page is appended twice to the stored post list.
C37_OneCrawlAtATime ==
  /\ [][StartsCursorCrawl => ~isLoading]_vars
  /\ [](Crawling => isLoading)
  /\ [](Cardinality(CursorCrawls) <= 1)
  /\ []NoPageTwice

====
